---- MODULE Spec2Model ----
(***************************************************************************)
(* A model of rust-opentimestamps: commitment operations (op.rs), the      *)
(* binary codec (ser.rs, attestation.rs, attestation/uri.rs), timestamp    *)
(* proofs, their builder and evaluator (timestamp.rs) and the merkle tree  *)
(* builder (tree.rs).                                                      *)
(*                                                                         *)
(* Byte strings are sequences of pieces.  A piece is a concrete byte, the  *)
(* digest of a byte string under one of the three hash functions (20 or 32 *)
(* opaque bytes; the hash primitives themselves are external to the        *)
(* repository and are modelled as free, collision-free constructors), or   *)
(* the lower-case hex form of an opaque piece.                             *)
(***************************************************************************)
EXTENDS Integers, Sequences, FiniteSets, TLC

\* ------------------------------------------------------------------------
\* Byte strings
\* ------------------------------------------------------------------------

B(n) == [k |-> "b", v |-> n, in |-> <<>>]

Digest(alg, m) == [k |-> "h", v |-> alg, in |-> m]

HexOf(p) == [k |-> "x", v |-> 0, in |-> <<p>>]

Bytes(s) == [i \in 1..Len(s) |-> B(s[i])]

RECURSIVE PLen(_)
PLen(p) ==
    IF p.k = "b" THEN 1
    ELSE IF p.k = "h" THEN (IF p.v = 8 THEN 32 ELSE 20)
    ELSE 2 * PLen(p.in[1])

RECURSIVE BLen(_)
BLen(m) == IF m = <<>> THEN 0 ELSE PLen(m[1]) + BLen(Tail(m))

Rep(b, n) == [i \in 1..n |-> B(b)]

\* ------------------------------------------------------------------------
\* op.rs
\* ------------------------------------------------------------------------

MAX_OUTPUT_LENGTH == 4096

Ok(v) == [ok |-> TRUE, val |-> v, len |-> 0]

OverflowError(n) == [ok |-> FALSE, val |-> <<>>, len |-> n]

op_sha1(msg) == <<Digest(2, msg)>>

op_ripemd160(msg) == <<Digest(3, msg)>>

op_sha256(msg) == <<Digest(8, msg)>>

HEX_CHARS == <<48, 49, 50, 51, 52, 53, 54, 55, 56, 57, 97, 98, 99, 100, 101, 102>>

HexPiece(p) ==
    IF p.k = "b"
    THEN <<B(HEX_CHARS[(p.v \div 16) + 1]), B(HEX_CHARS[(p.v % 16) + 1])>>
    ELSE <<HexOf(p)>>

RECURSIVE HexAll(_)
HexAll(m) == IF m = <<>> THEN <<>> ELSE HexPiece(m[1]) \o HexAll(Tail(m))

op_hexlify(msg) ==
    IF BLen(msg) > MAX_OUTPUT_LENGTH \div 2
    THEN OverflowError(BLen(msg))
    ELSE Ok(HexAll(msg))

HashOps == {"Sha1", "Sha256", "Ripemd160"}

HashOp_eval(h, msg) ==
    CASE h = "Sha1" -> op_sha1(msg)
      [] h = "Sha256" -> op_sha256(msg)
      [] h = "Ripemd160" -> op_ripemd160(msg)

\* Mutant of op_concat: a result of exactly MAX_OUTPUT_LENGTH bytes is refused.
op_concat_mut(left, right) ==
    LET len == BLen(left) + BLen(right)
    IN  IF len >= MAX_OUTPUT_LENGTH
        THEN OverflowError(len)
        ELSE Ok(left \o right)

op_concat(left, right) ==
    LET len == BLen(left) + BLen(right)
    IN  IF len > MAX_OUTPUT_LENGTH
        THEN OverflowError(len)
        ELSE Ok(left \o right)

OpHash(h) == [t |-> "HashOp", h |-> h, arg |-> <<>>]

OpAppend(b) == [t |-> "Append", h |-> "", arg |-> b]

OpPrepend(b) == [t |-> "Prepend", h |-> "", arg |-> b]

OpHexlify == [t |-> "Hexlify", h |-> "", arg |-> <<>>]

Op_eval(op, msg) ==
    CASE op.t = "HashOp" -> Ok(HashOp_eval(op.h, msg))
      [] op.t = "Append" -> op_concat(msg, op.arg)
      [] op.t = "Prepend" -> op_concat(op.arg, msg)
      [] op.t = "Hexlify" -> op_hexlify(msg)

\* ------------------------------------------------------------------------
\* ser.rs
\* ------------------------------------------------------------------------

\* Result of a read: the value, the unread rest of the reader, or an error.
ROk(v, rest) == [ok |-> TRUE, val |-> v, rest |-> rest, err |-> ""]

RErr(e) == [ok |-> FALSE, val |-> <<>>, rest |-> <<>>, err |-> e]

\* io::Read::read_exact on a slice: the next n bytes, or an I/O error.
RECURSIVE TakeBytes(_, _)
TakeBytes(r, n) ==
    IF n = 0 THEN <<>>
    ELSE <<r[1]>> \o TakeBytes(Tail(r), n - PLen(r[1]))

RECURSIVE Aligned(_, _)
Aligned(r, n) ==
    IF n = 0 THEN TRUE
    ELSE IF r = <<>> \/ PLen(r[1]) > n THEN FALSE
    ELSE Aligned(Tail(r), n - PLen(r[1]))

read_exact(r, n) ==
    IF BLen(r) < n THEN RErr("io")
    ELSE IF ~Aligned(r, n) THEN RErr("opaque")
    ELSE LET Split(got) == ROk(got, SubSeq(r, Len(got) + 1, Len(r)))
         IN  Split(TakeBytes(r, n))

\* One concrete byte.
read_u8(r) ==
    IF r = <<>> THEN RErr("io")
    ELSE IF r[1].k # "b" THEN RErr("opaque")
    ELSE ROk(r[1].v, Tail(r))

\* A u64 is kept as its base-128 digits, least significant first and without
\* leading zero digits (0 is <<>>), so that all 64 bits are represented.
RECURSIVE Num(_)
Num(i) == IF i = 0 THEN <<>> ELSE <<i % 128>> \o Num(i \div 128)

RECURSIVE Norm(_)
Norm(d) == IF d # <<>> /\ d[Len(d)] = 0 THEN Norm(SubSeq(d, 1, Len(d) - 1)) ELSE d

RECURSIVE NumToInt(_)
NumToInt(d) == IF d = <<>> THEN 0 ELSE d[1] + 128 * NumToInt(Tail(d))

\* d > i, for an i below 2^28.
NumGT(d, i) == Len(d) > 4 \/ NumToInt(d) > i

\* n as u32
Trunc32(d) ==
    IF Len(d) < 5 THEN d
    ELSE Norm(SubSeq(d, 1, 4) \o <<d[5] % 16>>)

\* Mutant of serialize_u64: a zero group in the middle of the value is left out.
RECURSIVE serialize_u64_mut(_)
serialize_u64_mut(n) ==
    IF Len(n) > 1
    THEN (IF n[1] = 0 THEN <<>> ELSE <<B(n[1] + 128)>>) \o serialize_u64_mut(Tail(n))
    ELSE <<B(IF n = <<>> THEN 0 ELSE n[1])>>

RECURSIVE serialize_u64(_)
serialize_u64(n) ==
    IF Len(n) > 1
    THEN <<B(n[1] + 128)>> \o serialize_u64(Tail(n))
    ELSE <<B(IF n = <<>> THEN 0 ELSE n[1])>>

serialize_u32(n) == serialize_u64(n)

\* Mutant of varint_loop: every terminating zero byte after a continuation
\* byte is rejected.
RECURSIVE varint_loop_mut(_, _, _, _)
varint_loop_mut(r, bits, n, shift) ==
    IF shift < bits
    THEN LET Digit(v) == IF shift + 7 > 64
                         THEN (v % 128) % (2 ^ (64 - shift))
                         ELSE v % 128
             Shifted(b, n2) ==
                 IF b.val \div 128 = 0
                 THEN IF b.val = 0 /\ shift > 0
                      THEN RErr("zero encoded with more than one byte")
                      ELSE ROk(n2, b.rest)
                 ELSE varint_loop_mut(b.rest, bits, Append(n, Digit(b.val)), shift + 7)
             Byte(b) == IF ~b.ok THEN RErr(b.err)
                        ELSE Shifted(b, Norm(Append(n, Digit(b.val))))
         IN  Byte(read_u8(r))
    ELSE RErr("varint overflow")

\* n holds the digits read so far; a digit shifted beyond bit 63 loses its
\* high bits.
RECURSIVE varint_loop(_, _, _, _)
varint_loop(r, bits, n, shift) ==
    IF shift < bits
    THEN LET Digit(v) == IF shift + 7 > 64
                         THEN (v % 128) % (2 ^ (64 - shift))
                         ELSE v % 128
             Shifted(b, n2) ==
                 IF b.val \div 128 = 0
                 THEN IF n2 = <<>> /\ shift > 0
                      THEN RErr("zero encoded with more than one byte")
                      ELSE ROk(n2, b.rest)
                 ELSE varint_loop(b.rest, bits, Append(n, Digit(b.val)), shift + 7)
             Byte(b) == IF ~b.ok THEN RErr(b.err)
                        ELSE Shifted(b, Norm(Append(n, Digit(b.val))))
         IN  Byte(read_u8(r))
    ELSE RErr("varint overflow")

deserialize_varint(r, bits) == varint_loop(r, bits, <<>>, 0)

deserialize_u64(r) == deserialize_varint(r, 64)

deserialize_u32(r) ==
    LET AsU32(x) == IF x.ok THEN ROk(Trunc32(x.val), x.rest) ELSE x
    IN  AsU32(deserialize_varint(r, 32))

serialize_varbytes(buf) == serialize_u64(Num(BLen(buf))) \o buf

deserialize_varbytes(buflen, r) ==
    LET Buf(len) ==
            IF ~len.ok THEN RErr(len.err)
            ELSE IF NumGT(len.val, buflen) THEN RErr("max length exceeded")
            ELSE read_exact(len.rest, NumToInt(len.val))
    IN  Buf(deserialize_u64(r))

\* ------------------------------------------------------------------------
\* attestation/uri.rs
\* ------------------------------------------------------------------------

UriString_MAX_LENGTH == 1000

AllowedChar(c) ==
    \/ c \in 65..90
    \/ c \in 97..122
    \/ c \in 48..57
    \/ c \in {45, 46, 95, 47, 58}

\* UriStringError::InvalidChar(b).
InvalidChar(b) == "InvalidChar(" \o ToString(b) \o ")"

\* A piece with a byte outside the allowed set: a concrete byte that is not
\* allowed, or a digest, whose bytes are not known.  The hex form of a piece
\* is made of the digits 0-9 and a-f.
BadPiece(p) == IF p.k = "b" THEN ~AllowedChar(p.v) ELSE p.k = "h"

\* Mutant of validate_str: a string of MAX_LENGTH bytes is too long.
validate_str_mut(s) ==
    IF BLen(s) >= UriString_MAX_LENGTH THEN "TooLong"
    ELSE IF \E i \in 1..Len(s) : BadPiece(s[i])
    THEN LET First(i) == IF s[i].k = "b" THEN InvalidChar(s[i].v) ELSE "InvalidChar"
         IN  First(CHOOSE i \in 1..Len(s) : BadPiece(s[i]) /\ \A j \in 1..(i - 1) : ~BadPiece(s[j]))
    ELSE ""

\* "" when valid, else the error: the loop returns at the first byte that is
\* not allowed.
validate_str(s) ==
    IF BLen(s) > UriString_MAX_LENGTH THEN "TooLong"
    ELSE IF \E i \in 1..Len(s) : BadPiece(s[i])
    THEN LET First(i) == IF s[i].k = "b" THEN InvalidChar(s[i].v) ELSE "InvalidChar"
         IN  First(CHOOSE i \in 1..Len(s) : BadPiece(s[i]) /\ \A j \in 1..(i - 1) : ~BadPiece(s[j]))
    ELSE ""

\* TryFrom<&str> and TryFrom<String> for UriString.
UriString_try_from(s) ==
    LET Checked(e) == IF e # "" THEN RErr(e) ELSE ROk(s, <<>>)
    IN  Checked(validate_str(s))

UriString_serialize(uri) == serialize_u64(Num(BLen(uri))) \o uri

UriString_deserialize(r) ==
    LET Checked(v, e) == IF e # "" THEN RErr(e) ELSE v
        Str(v) == IF ~v.ok THEN v ELSE Checked(v, validate_str(v.val))
        Sized(len) ==
            IF ~len.ok THEN RErr(len.err)
            ELSE IF NumGT(len.val, UriString_MAX_LENGTH) THEN RErr("TooLong")
            ELSE Str(read_exact(len.rest, NumToInt(len.val)))
    IN  Sized(deserialize_u64(r))

\* ------------------------------------------------------------------------
\* attestation.rs
\* ------------------------------------------------------------------------

BITCOIN_ATTESTATION_TAG == Bytes(<<5, 136, 150, 13, 115, 215, 25, 1>>)

PENDING_ATTESTATION_TAG == Bytes(<<131, 223, 227, 13, 46, 249, 12, 142>>)

MAX_PAYLOAD_SIZE == 8192

\* block_height is a u32, kept as its digits like every integer of the codec.
AttBitcoin(h) ==
    [a |-> "Bitcoin", block_height |-> h, uri |-> <<>>, tag |-> <<>>, payload |-> <<>>]

AttPending(u) ==
    [a |-> "Pending", block_height |-> <<>>, uri |-> u, tag |-> <<>>, payload |-> <<>>]

AttUnknown(tag, payload) ==
    [a |-> "Unknown", block_height |-> <<>>, uri |-> <<>>, tag |-> tag, payload |-> payload]

NoAtt == [a |-> "", block_height |-> <<>>, uri |-> <<>>, tag |-> <<>>, payload |-> <<>>]

\* Mutant of Attestation_serialize: the URI is written as the payload itself,
\* without its own length.
Attestation_serialize_mut(att) ==
    CASE att.a = "Bitcoin" ->
            BITCOIN_ATTESTATION_TAG \o serialize_varbytes(serialize_u32(att.block_height))
      [] att.a = "Pending" ->
            PENDING_ATTESTATION_TAG \o serialize_varbytes(att.uri)
      [] att.a = "Unknown" ->
            att.tag \o serialize_varbytes(att.payload)

Attestation_serialize(att) ==
    CASE att.a = "Bitcoin" ->
            BITCOIN_ATTESTATION_TAG \o serialize_varbytes(serialize_u32(att.block_height))
      [] att.a = "Pending" ->
            PENDING_ATTESTATION_TAG \o serialize_varbytes(UriString_serialize(att.uri))
      [] att.a = "Unknown" ->
            att.tag \o serialize_varbytes(att.payload)

Attestation_deserialize(r) ==
    LET Bitcoin(h, rest) == IF ~h.ok THEN RErr(h.err) ELSE ROk(AttBitcoin(h.val), rest)
        Pending(u, rest) == IF ~u.ok THEN RErr(u.err) ELSE ROk(AttPending(u.val), rest)
        Tagged(tag, payload) ==
            IF ~payload.ok THEN RErr(payload.err)
            ELSE IF tag = BITCOIN_ATTESTATION_TAG
            THEN Bitcoin(deserialize_u32(payload.val), payload.rest)
            ELSE IF tag = PENDING_ATTESTATION_TAG
            THEN Pending(UriString_deserialize(payload.val), payload.rest)
            ELSE ROk(AttUnknown(tag, payload.val), payload.rest)
        Tag(tag) ==
            IF ~tag.ok THEN RErr(tag.err)
            ELSE Tagged(tag.val, deserialize_varbytes(MAX_PAYLOAD_SIZE, tag.rest))
    IN  Tag(read_exact(r, 8))

\* ------------------------------------------------------------------------
\* timestamp.rs: Step and Steps
\* ------------------------------------------------------------------------

NoOp == [t |-> "", h |-> "", arg |-> <<>>]

StepAttestation(att) == [s |-> "Attestation", att |-> att, op |-> NoOp]

StepOp(op) == [s |-> "Op", att |-> NoAtt, op |-> op]

StepFork == [s |-> "Fork", att |-> NoAtt, op |-> NoOp]

Step_serialize(step) ==
    CASE step.s = "Attestation" -> <<B(0)>> \o Attestation_serialize(step.att)
      [] step.s = "Op" /\ step.op.t = "HashOp" ->
            <<B(CASE step.op.h = "Sha1" -> 2
                  [] step.op.h = "Sha256" -> 8
                  [] step.op.h = "Ripemd160" -> 3)>>
      [] step.s = "Op" /\ step.op.t = "Hexlify" -> <<B(243)>>
      [] step.s = "Op" /\ step.op.t = "Append" -> <<B(240)>> \o serialize_varbytes(step.op.arg)
      [] step.s = "Op" /\ step.op.t = "Prepend" -> <<B(241)>> \o serialize_varbytes(step.op.arg)
      [] step.s = "Fork" -> <<B(255)>>

Step_deserialize(r) ==
    LET Att(a) == IF ~a.ok THEN RErr(a.err) ELSE ROk(StepAttestation(a.val), a.rest)
        Rhs(rhs) == IF ~rhs.ok THEN RErr(rhs.err) ELSE ROk(StepOp(OpAppend(rhs.val)), rhs.rest)
        Lhs(lhs) == IF ~lhs.ok THEN RErr(lhs.err) ELSE ROk(StepOp(OpPrepend(lhs.val)), lhs.rest)
        Tagged(b) ==
            IF ~b.ok THEN RErr(b.err)
            ELSE CASE b.val = 0 -> Att(Attestation_deserialize(b.rest))
                   [] b.val = 255 -> ROk(StepFork, b.rest)
                   [] b.val = 2 -> ROk(StepOp(OpHash("Sha1")), b.rest)
                   [] b.val = 8 -> ROk(StepOp(OpHash("Sha256")), b.rest)
                   [] b.val = 3 -> ROk(StepOp(OpHash("Ripemd160")), b.rest)
                   [] b.val = 243 -> ROk(StepOp(OpHexlify), b.rest)
                   [] b.val = 240 -> Rhs(deserialize_varbytes(MAX_OUTPUT_LENGTH, b.rest))
                   [] b.val = 241 -> Lhs(deserialize_varbytes(MAX_OUTPUT_LENGTH, b.rest))
                   [] OTHER -> RErr("unknown op")
    IN  Tagged(read_u8(r))

RECURSIVE Steps_serialize(_)
Steps_serialize(steps) ==
    IF steps = <<>> THEN <<>>
    ELSE Step_serialize(steps[1]) \o Steps_serialize(Tail(steps))

\* Number of steps of a given kind.
RECURSIVE CountKind(_, _)
CountKind(steps, kind) ==
    IF steps = <<>> THEN 0
    ELSE (IF steps[1].s = kind THEN 1 ELSE 0) + CountKind(Tail(steps), kind)

\* Timestamp<M> { msg, steps }
Timestamp(msg, steps) == [msg |-> msg, steps |-> steps]

Timestamp_to_serialized_bytes(ts) == Steps_serialize(ts.steps)

\* ------------------------------------------------------------------------
\* timestamp.rs: StepsEvaluator
\* An Option is a sequence of length 0 (None) or 1 (Some).
\* ------------------------------------------------------------------------

Last(s) == s[Len(s)]

Front(s) == SubSeq(s, 1, Len(s) - 1)

RetNone == [kind |-> "None", step |-> StepFork, msg |-> <<>>, err |-> ""]

RetOk(step, msg) == [kind |-> "Ok", step |-> step, msg |-> msg, err |-> ""]

RetErr(e) == [kind |-> "Err", step |-> StepFork, msg |-> <<>>, err |-> e]

RetPanic == [kind |-> "Panic", step |-> StepFork, msg |-> <<>>, err |-> "not yet implemented"]

StepsEvaluator_new(initial_msg, steps) ==
    [stack |-> <<initial_msg>>, dropped_result |-> <<>>, next_steps |-> steps]

StepsEvaluator_result(e) == IF e.stack = <<>> THEN <<>> ELSE <<Last(e.stack)>>

\* Mutant of eval_attestation: the closed branch's message replaces the
\* message the next branch starts from.
eval_attestation_mut(e) ==
    LET msg == Last(e.stack)
        rest == Front(e.stack)
        e2 == [stack |-> IF rest = <<>> THEN rest ELSE Append(Front(rest), msg),
               dropped_result |-> <<msg>>,
               next_steps |-> Tail(e.next_steps)]
    IN  [e |-> e2, ret |-> RetOk(e.next_steps[1], e2.dropped_result[1])]

\* The Step::Attestation arm.
eval_attestation(e) ==
    LET msg == Last(e.stack)
        e2 == [stack |-> Front(e.stack),
               dropped_result |-> <<msg>>,
               next_steps |-> Tail(e.next_steps)]
    IN  [e |-> e2, ret |-> RetOk(e.next_steps[1], e2.dropped_result[1])]

\* Mutant of eval_op: a failed op is consumed.
eval_op_mut(e) ==
    LET r == Op_eval(e.next_steps[1].op, Last(e.stack))
    IN  IF r.ok
        THEN LET e2 == [stack |-> Append(Front(e.stack), r.val),
                        dropped_result |-> e.dropped_result,
                        next_steps |-> Tail(e.next_steps)]
             IN  [e |-> e2, ret |-> RetOk(e.next_steps[1], StepsEvaluator_result(e2)[1])]
        ELSE [e |-> [stack |-> e.stack,
                     dropped_result |-> e.dropped_result,
                     next_steps |-> Tail(e.next_steps)],
              ret |-> RetErr("Op")]

\* The Step::Op arm.
eval_op(e) ==
    LET r == Op_eval(e.next_steps[1].op, Last(e.stack))
    IN  IF r.ok
        THEN LET e2 == [stack |-> Append(Front(e.stack), r.val),
                        dropped_result |-> e.dropped_result,
                        next_steps |-> Tail(e.next_steps)]
             IN  [e |-> e2, ret |-> RetOk(e.next_steps[1], StepsEvaluator_result(e2)[1])]
        ELSE [e |-> e, ret |-> RetErr("Op")]

\* Mutant of eval_fork: the Fork is consumed without opening a branch.
eval_fork_mut(e) ==
    LET e2 == [stack |-> e.stack,
               dropped_result |-> e.dropped_result,
               next_steps |-> Tail(e.next_steps)]
    IN  [e |-> e2, ret |-> RetOk(e.next_steps[1], StepsEvaluator_result(e2)[1])]

\* The Step::Fork arm.
eval_fork(e) ==
    LET e2 == [stack |-> Append(e.stack, Last(e.stack)),
               dropped_result |-> e.dropped_result,
               next_steps |-> Tail(e.next_steps)]
    IN  [e |-> e2, ret |-> RetOk(e.next_steps[1], StepsEvaluator_result(e2)[1])]

try_next_step(e) ==
    CASE e.stack = <<>> /\ e.next_steps = <<>> -> [e |-> e, ret |-> RetNone]
      [] e.stack # <<>> /\ e.next_steps # <<>> ->
            (CASE e.next_steps[1].s = "Attestation" -> eval_attestation(e)
               [] e.next_steps[1].s = "Op" -> eval_op(e)
               [] e.next_steps[1].s = "Fork" -> eval_fork(e))
      [] e.stack # <<>> /\ e.next_steps = <<>> -> [e |-> e, ret |-> RetErr("InsufficientSteps")]
      [] e.stack = <<>> /\ e.next_steps # <<>> -> [e |-> e, ret |-> RetPanic]

\* ------------------------------------------------------------------------
\* timestamp.rs: TimestampBuilder
\* ------------------------------------------------------------------------

TimestampBuilder_new(msg) == [msg |-> msg, result |-> <<>>, steps |-> <<>>]

TimestampBuilder_result(b) == IF b.result # <<>> THEN b.result[1] ELSE b.msg

try_push_op(b, op) ==
    LET r == Op_eval(op, TimestampBuilder_result(b))
    IN  IF r.ok
        THEN [ok |-> TRUE,
              b |-> [msg |-> b.msg, result |-> <<r.val>>, steps |-> Append(b.steps, StepOp(op))]]
        ELSE [ok |-> FALSE, b |-> b]

\* Mutant of hash: the digest is taken of msg instead of result().
hash_mut(b, h) ==
    [msg |-> b.msg,
     result |-> <<HashOp_eval(h, b.msg)>>,
     steps |-> Append(b.steps, StepOp(OpHash(h)))]

hash(b, h) ==
    [msg |-> b.msg,
     result |-> <<HashOp_eval(h, TimestampBuilder_result(b))>>,
     steps |-> Append(b.steps, StepOp(OpHash(h)))]

\* append / prepend: try_push_op(..).expect("overflow")
append(b, right) == try_push_op(b, OpAppend(right))

prepend(b, left) == try_push_op(b, OpPrepend(left))

\* The while-let loop of finish_with_timestamps over the remaining timestamps.
\* Mutant of fwt_loop: a Fork is pushed before every sub-timestamp, the last
\* one included.
RECURSIVE fwt_loop_mut(_, _, _)
fwt_loop_mut(steps, result, timestamps) ==
    IF timestamps = <<>> THEN [panic |-> FALSE, steps |-> steps]
    ELSE IF timestamps[1].msg # result THEN [panic |-> TRUE, steps |-> steps]
    ELSE fwt_loop_mut(Append(steps, StepFork) \o timestamps[1].steps,
                      result, Tail(timestamps))

RECURSIVE fwt_loop(_, _, _)
fwt_loop(steps, result, timestamps) ==
    IF timestamps = <<>> THEN [panic |-> FALSE, steps |-> steps]
    ELSE IF timestamps[1].msg # result THEN [panic |-> TRUE, steps |-> steps]
    ELSE fwt_loop((IF Len(timestamps) > 1 THEN Append(steps, StepFork) ELSE steps)
                      \o timestamps[1].steps,
                  result, Tail(timestamps))

finish_with_timestamps(b, timestamps) ==
    LET r == fwt_loop(b.steps, TimestampBuilder_result(b), timestamps)
    IN  [panic |-> r.panic, ts |-> Timestamp(b.msg, r.steps)]

finish_with_attestation(b, attestation) ==
    Timestamp(b.msg, Append(b.steps, StepAttestation(attestation)))

\* Mutant of tips_next: a Fork does not open a second tip.
tips_next_mut(tips, step) ==
    CASE step.s = "Fork" -> tips
      [] step.s = "Attestation" -> tips - 1
      [] step.s = "Op" -> tips

\* Steps::deserialize: the effect of one step on the tips counter.
tips_next(tips, step) ==
    CASE step.s = "Fork" -> tips + 1
      [] step.s = "Attestation" -> tips - 1
      [] step.s = "Op" -> tips

\* ------------------------------------------------------------------------
\* Bounds and input alphabets
\* ------------------------------------------------------------------------

MaxOps == 2

MaxSubs == 2

MaxEvalSteps == 4

MaxTokens == 4

RECURSIVE HexN(_, _)
HexN(p, n) == IF n = 0 THEN p ELSE HexN(HexOf(p), n - 1)

\* A message of exactly MAX_OUTPUT_LENGTH bytes: hexlify^7 of a 32-byte digest.
BigMsg == <<HexN(Digest(8, <<>>), 7)>>

MsgA == Bytes(<<97>>)

Msgs == {<<>>, MsgA, BigMsg}

ArgAlphabet == {MsgA}

HashAlphabet == {"Sha256"}

OpAlphabet == {OpHexlify}

UnknownTag == Bytes(<<1, 2, 3, 4, 5, 6, 7, 8>>)

AttAlphabet == {AttBitcoin(Num(300)), AttPending(MsgA)}

\* Timestamps a caller may hand to finish_with_timestamps: a bare attestation,
\* an op before an attestation, a fork of two attestations (itself the result
\* of finish_with_timestamps), and the steps of a builder finished with no
\* timestamp at all.
SubSteps ==
    { <<StepAttestation(AttBitcoin(Num(300)))>>,
      <<StepOp(OpHash("Sha256")), StepAttestation(AttPending(MsgA))>>,
      <<StepFork, StepAttestation(AttBitcoin(Num(300))), StepAttestation(AttPending(MsgA))>>,
      <<StepOp(OpHexlify)>> }

SubMsgs == {<<>>, MsgA}

SubTimestamps == {Timestamp(m, st) : m \in SubMsgs, st \in SubSteps}

SeqsUpTo(S, n) == UNION {[1..k -> S] : k \in 0..n}

\* ------------------------------------------------------------------------
\* State
\* ------------------------------------------------------------------------

VARIABLES
    builder,      \* Option<TimestampBuilder>: the builder under construction
    subs,         \* Vec<Timestamp>: timestamps collected for finish_with_timestamps
    cur,          \* Option<Timestamp>: the timestamp produced last
    ghost,        \* how cur was produced (history)
    panic,        \* "" or the message of the panic that aborted the program
    d_pc,         \* Steps::deserialize: "idle", "loop", "ok" or "err"
    reader,       \* Steps::deserialize: unread input
    d_steps,      \* Steps::deserialize: steps
    d_tips,       \* Steps::deserialize: tips
    d_in,         \* the input of the running deserialization (history)
    ev_on,        \* a StepsEvaluator exists
    ev,           \* the StepsEvaluator
    ev_ret,       \* what the last call of try_next_step returned
    ev_prev,      \* what the call before it returned (history)
    ev_in,        \* the input of the evaluator (history)
    t_pc,         \* MerkleTreeBuilder: "idle", "init", "built", "new_panicked" or "finish"
    t_in,         \* the builders handed to MerkleTreeBuilder::new (history)
    t_items,      \* MerkleTreeBuilder.items
    t_tip,        \* MerkleTreeBuilder.tip
    t_arg,        \* Option<Timestamp>: the argument of finish (history)
    t_out,        \* Option<Vec<Timestamp>>: what finish returned
    c_pc,         \* a codec call: "idle", "value" (to serialize or evaluate), "bytes" (to read) or "done"
    c_in,         \* the function called and its argument (history)
    c_wire,       \* the bytes written by the serializer, or handed to the deserializer
    c_out,        \* what the call returned
    r_pc,         \* stamp_with_options: "idle", "join", "returned" or "panicked"
    r_opts,       \* StampOptions: the number of aggregators and min_attestations
    r_tasks,      \* the spawned tasks: state, response of the server, output
    r_ready,      \* tasks that completed and were not joined yet, in completion order
    successes,    \* stamp_with_options: successes
    failures,     \* stamp_with_options: failures
    r_ret         \* Option<Result<Timestamp, TimestampDigestError>>

bvars == <<builder, subs, cur, ghost>>

dvars == <<d_pc, reader, d_steps, d_tips, d_in>>

evars == <<ev_on, ev, ev_ret, ev_prev, ev_in>>

tvars == <<t_pc, t_in, t_items, t_tip, t_arg, t_out>>

cvars == <<c_pc, c_in, c_wire, c_out>>

rvars == <<r_pc, r_opts, r_tasks, r_ready, successes, failures, r_ret>>

vars == <<builder, subs, cur, ghost, panic, d_pc, reader, d_steps, d_tips, d_in,
          ev_on, ev, ev_ret, ev_prev, ev_in, t_pc, t_in, t_items, t_tip, t_arg, t_out,
          c_pc, c_in, c_wire, c_out,
          r_pc, r_opts, r_tasks, r_ready, successes, failures, r_ret>>

NoGhost == [origin |-> "none", result |-> <<>>, bsteps |-> <<>>, subs |-> <<>>, att |-> <<>>]

NoIn == [msg |-> <<>>, wire |-> <<>>, toks |-> <<>>, src |-> <<>>]

RetInit == [kind |-> "Init", step |-> StepFork, msg |-> <<>>, err |-> ""]

NoEvIn == [msg |-> <<>>, steps |-> <<>>, ghost |-> NoGhost]

BIdle ==
    /\ builder = <<>>
    /\ cur = <<>>
    /\ ghost = NoGhost
    /\ panic = ""

DIdle ==
    /\ d_pc = "idle"
    /\ reader = <<>>
    /\ d_steps = <<>>
    /\ d_tips = 1
    /\ d_in = NoIn

EIdle ==
    /\ ev_on = FALSE
    /\ ev = StepsEvaluator_new(<<>>, <<>>)
    /\ ev_ret = RetInit
    /\ ev_prev = RetInit
    /\ ev_in = NoEvIn

TIdle ==
    /\ t_pc = "idle"
    /\ t_in = <<>>
    /\ t_items = <<>>
    /\ t_tip = <<>>
    /\ t_arg = <<>>
    /\ t_out = <<>>

NoCall ==
    [fn |-> "", n |-> <<>>, op |-> NoOp, msg |-> <<>>, att |-> NoAtt, tail |-> <<>>, raw |-> FALSE]

CIdle ==
    /\ c_pc = "idle"
    /\ c_in = NoCall
    /\ c_wire = <<>>
    /\ c_out = <<>>

RIdle ==
    /\ r_pc = "idle"
    /\ r_opts = [aggregators |-> 0, min_attestations |-> 1]
    /\ r_tasks = <<>>
    /\ r_ready = <<>>
    /\ successes = <<>>
    /\ failures = <<>>
    /\ r_ret = <<>>

\* A caller holding the timestamps it may later join, and nothing else yet.
Init ==
    /\ BIdle
    /\ subs \in SeqsUpTo(SubTimestamps, MaxSubs)
    /\ DIdle
    /\ EIdle
    /\ TIdle
    /\ CIdle
    /\ RIdle

Running == panic = ""

Idle == Running /\ builder = <<>> /\ d_pc # "loop" /\ ~ev_on

\* The result of an earlier deserialization is dropped.
DReset ==
    /\ d_pc' = "idle"
    /\ reader' = <<>>
    /\ d_steps' = <<>>
    /\ d_tips' = 1
    /\ d_in' = NoIn

\* ------------------------------------------------------------------------
\* TimestampBuilder operations
\* ------------------------------------------------------------------------

BuilderNew(msg) ==
    /\ Idle /\ cur = <<>>
    /\ builder' = <<TimestampBuilder_new(msg)>>
    /\ DReset
    /\ UNCHANGED <<subs, cur, ghost, panic, evars>>
    /\ UNCHANGED <<tvars, cvars, rvars>>

\* try_push_op consumes the builder; on overflow the caller gets only the error.
TryPushOp(op) ==
    /\ Running /\ builder # <<>>
    /\ Len(builder[1].steps) < MaxOps
    /\ LET r == try_push_op(builder[1], op)
       IN  builder' = IF r.ok THEN <<r.b>> ELSE <<>>
    /\ UNCHANGED <<subs, cur, ghost, panic, dvars, evars>>
    /\ UNCHANGED <<tvars, cvars, rvars>>

Hash(h) ==
    /\ Running /\ builder # <<>>
    /\ Len(builder[1].steps) < MaxOps
    /\ builder' = <<hash(builder[1], h)>>
    /\ UNCHANGED <<subs, cur, ghost, panic, dvars, evars>>
    /\ UNCHANGED <<tvars, cvars, rvars>>

BuilderAppend(right) ==
    /\ Running /\ builder # <<>>
    /\ Len(builder[1].steps) < MaxOps
    /\ LET r == append(builder[1], right)
       IN  /\ builder' = IF r.ok THEN <<r.b>> ELSE <<>>
           /\ panic' = IF r.ok THEN "" ELSE "overflow"
    /\ UNCHANGED <<subs, cur, ghost, dvars, evars>>
    /\ UNCHANGED <<tvars, cvars, rvars>>

BuilderPrepend(left) ==
    /\ Running /\ builder # <<>>
    /\ Len(builder[1].steps) < MaxOps
    /\ LET r == prepend(builder[1], left)
       IN  /\ builder' = IF r.ok THEN <<r.b>> ELSE <<>>
           /\ panic' = IF r.ok THEN "" ELSE "overflow"
    /\ UNCHANGED <<subs, cur, ghost, dvars, evars>>
    /\ UNCHANGED <<tvars, cvars, rvars>>

FinishWithAttestation(a) ==
    /\ Running /\ builder # <<>> /\ subs = <<>>
    /\ cur' = <<finish_with_attestation(builder[1], a)>>
    /\ ghost' = [origin |-> "attestation",
                 result |-> TimestampBuilder_result(builder[1]),
                 bsteps |-> builder[1].steps,
                 subs |-> <<>>,
                 att |-> <<a>>]
    /\ builder' = <<>>
    /\ UNCHANGED <<subs, panic, dvars, evars>>
    /\ UNCHANGED <<tvars, cvars, rvars>>

FinishWithTimestamps ==
    /\ Running /\ builder # <<>>
    /\ LET r == finish_with_timestamps(builder[1], subs)
       IN  /\ panic' = IF r.panic THEN "assertion failed" ELSE ""
           /\ cur' = IF r.panic THEN <<>> ELSE <<r.ts>>
           /\ ghost' = IF r.panic THEN NoGhost
                       ELSE [origin |-> "timestamps",
                             result |-> TimestampBuilder_result(builder[1]),
                             bsteps |-> builder[1].steps,
                             subs |-> subs,
                             att |-> <<>>]
    /\ builder' = <<>>
    /\ subs' = <<>>
    /\ UNCHANGED <<dvars, evars>>
    /\ UNCHANGED <<tvars, cvars, rvars>>

\* ------------------------------------------------------------------------
\* Timestamp::deserialize / Steps::deserialize
\* ------------------------------------------------------------------------

\* Timestamp::deserialize(msg, reader) is called on the serialization of cur.
DeserializeStart(msg) ==
    /\ Idle /\ cur # <<>>
    /\ d_pc' = "loop"
    /\ reader' = Timestamp_to_serialized_bytes(cur[1])
    /\ d_steps' = <<>>
    /\ d_tips' = 1
    /\ d_in' = [msg |-> msg, wire |-> Timestamp_to_serialized_bytes(cur[1]),
                toks |-> <<>>, src |-> <<[ts |-> cur[1], origin |-> ghost.origin]>>]
    /\ UNCHANGED <<bvars, panic, evars>>
    /\ UNCHANGED <<tvars, cvars, rvars>>

\* One iteration of the loop of Steps::deserialize; the function returns when
\* Step::deserialize fails or when the loop condition fails after the body.
DeserStep ==
    /\ Running /\ d_pc = "loop"
    /\ LET Body(r) ==
               IF ~r.ok
               THEN /\ d_pc' = "err"
                    /\ UNCHANGED <<reader, d_steps, d_tips, bvars>>
               ELSE /\ d_tips' = tips_next(d_tips, r.val)
                    /\ d_steps' = Append(d_steps, r.val)
                    /\ reader' = r.rest
                    /\ d_pc' = IF d_tips' >= 1 THEN "loop" ELSE "ok"
                    /\ IF d_tips' >= 1 \/ d_in.src = <<>>
                       THEN UNCHANGED bvars
                       ELSE /\ cur' = <<Timestamp(d_in.msg, d_steps')>>
                            /\ ghost' = [origin |-> "deserialize", result |-> <<>>,
                                         bsteps |-> <<>>, subs |-> <<>>, att |-> <<>>]
                            /\ UNCHANGED <<builder, subs>>
       IN  Body(Step_deserialize(reader))
    /\ UNCHANGED <<d_in, panic, evars>>
    /\ UNCHANGED <<tvars, cvars, rvars>>

\* ------------------------------------------------------------------------
\* StepsEvaluator
\* ------------------------------------------------------------------------

EvalStart ==
    /\ Idle /\ cur # <<>>
    /\ ev_on' = TRUE
    /\ ev' = StepsEvaluator_new(cur[1].msg, cur[1].steps)
    /\ ev_ret' = RetInit
    /\ ev_prev' = RetInit
    /\ ev_in' = [msg |-> cur[1].msg, steps |-> cur[1].steps, ghost |-> ghost]
    /\ DReset
    /\ UNCHANGED <<bvars, panic>>
    /\ UNCHANGED <<tvars, cvars, rvars>>

TryNextStep ==
    /\ Running /\ ev_on
    /\ LET r == try_next_step(ev)
       IN  /\ ev' = r.e
           /\ ev_ret' = r.ret
           /\ ev_prev' = ev_ret
           /\ panic' = IF r.ret.kind = "Panic" THEN "not yet implemented" ELSE ""
    /\ UNCHANGED <<ev_on, ev_in, bvars, dvars>>
    /\ UNCHANGED <<tvars, cvars, rvars>>

EvalDrop ==
    /\ Running /\ ev_on
    /\ ev_ret.kind \in {"None", "Err"}
    /\ ev_on' = FALSE
    /\ ev' = StepsEvaluator_new(<<>>, <<>>)
    /\ ev_ret' = RetInit
    /\ ev_prev' = RetInit
    /\ ev_in' = NoEvIn
    /\ UNCHANGED <<bvars, panic, dvars>>
    /\ UNCHANGED <<tvars, cvars, rvars>>

Next ==
    \/ \E msg \in Msgs : BuilderNew(msg)
    \/ \E op \in OpAlphabet : TryPushOp(op)
    \/ \E h \in HashAlphabet : Hash(h)
    \/ \E b \in ArgAlphabet : BuilderAppend(b)
    \/ \E b \in ArgAlphabet : BuilderPrepend(b)
    \/ \E a \in AttAlphabet : FinishWithAttestation(a)
    \/ FinishWithTimestamps
    \/ \E msg \in Msgs : DeserializeStart(msg)
    \/ DeserStep
    \/ EvalStart
    \/ TryNextStep
    \/ EvalDrop

Spec == Init /\ [][Next]_vars

\* ------------------------------------------------------------------------
\* Steps::deserialize on arbitrary input
\* ------------------------------------------------------------------------

\* The input is a concatenation of encoded steps and of fragments that are
\* not steps: an unknown tag, a truncated attestation, and an Append whose
\* declared length (4097) exceeds the buffer.  One encoded step is not what
\* the serializer writes: a Bitcoin attestation whose payload goes on after
\* the block height.
Tokens ==
    { Step_serialize(StepFork),
      <<B(0)>> \o BITCOIN_ATTESTATION_TAG \o serialize_varbytes(Bytes(<<0, 97>>)),
      Step_serialize(StepOp(OpHash("Sha256"))),
      Step_serialize(StepOp(OpAppend(MsgA))),
      Step_serialize(StepAttestation(AttBitcoin(Num(300)))),
      Step_serialize(StepAttestation(AttUnknown(UnknownTag, Bytes(<<7>>)))),
      Bytes(<<7>>),
      Bytes(<<0, 5>>),
      Bytes(<<240, 129, 32>>) }

RECURSIVE Concat(_)
Concat(ss) == IF ss = <<>> THEN <<>> ELSE ss[1] \o Concat(Tail(ss))

InitDeser ==
    /\ BIdle
    /\ subs = <<>>
    /\ \E toks \in SeqsUpTo(Tokens, MaxTokens) :
          /\ reader = Concat(toks)
          /\ d_in = [msg |-> <<>>, wire |-> Concat(toks), toks |-> toks, src |-> <<>>]
    /\ d_pc = "loop"
    /\ d_steps = <<>>
    /\ d_tips = 1
    /\ EIdle
    /\ TIdle
    /\ CIdle
    /\ RIdle

NextDeser == DeserStep

SpecDeser == InitDeser /\ [][NextDeser]_vars

\* ------------------------------------------------------------------------
\* StepsEvaluator on arbitrary steps
\* ------------------------------------------------------------------------

EvalMsgs == {MsgA, BigMsg}

EvalSteps ==
    { StepFork,
      StepAttestation(AttBitcoin(Num(42))),
      StepAttestation(AttBitcoin(Num(43))),
      StepOp(OpHash("Sha256")),
      StepOp(OpAppend(MsgA)),
      StepOp(OpHexlify) }

InitEval ==
    /\ BIdle
    /\ subs = <<>>
    /\ DIdle
    /\ ev_on = TRUE
    /\ \E m \in EvalMsgs, st \in SeqsUpTo(EvalSteps, MaxEvalSteps) :
          /\ ev = StepsEvaluator_new(m, st)
          /\ ev_in = [msg |-> m, steps |-> st, ghost |-> NoGhost]
    /\ ev_ret = RetInit
    /\ ev_prev = RetInit
    /\ TIdle
    /\ CIdle
    /\ RIdle

NextEval == TryNextStep

SpecEval == InitEval /\ [][NextEval]_vars

\* ------------------------------------------------------------------------
\* tree.rs
\* ------------------------------------------------------------------------

MaxItems == 3

\* Mutant of build_merkle_tree: the left part gets the ceiling of N/2.
RECURSIVE build_merkle_tree_mut(_)
build_merkle_tree_mut(items) ==
    IF Len(items) = 0 THEN [panic |-> "assertion failed", items |-> items, tip |-> <<>>]
    ELSE IF Len(items) = 1
    THEN LET it == IF BLen(items[1].msg) # 32 THEN hash(items[1], "Sha256") ELSE items[1]
         IN  IF BLen(TimestampBuilder_result(it)) # 32
             THEN [panic |-> "32 byte digest", items |-> <<it>>, tip |-> <<>>]
             ELSE [panic |-> "", items |-> <<it>>, tip |-> TimestampBuilder_result(it)]
    ELSE LET mid == (Len(items) + 1) \div 2
             l == build_merkle_tree_mut(SubSeq(items, 1, mid))
             r == build_merkle_tree_mut(SubSeq(items, mid + 1, Len(items)))
         IN  IF l.panic # "" THEN [panic |-> l.panic, items |-> items, tip |-> <<>>]
             ELSE IF r.panic # "" THEN [panic |-> r.panic, items |-> items, tip |-> <<>>]
             ELSE LET la == [i \in 1..Len(l.items) |-> append(l.items[i], r.tip)]
                      ra == [i \in 1..Len(r.items) |-> prepend(r.items[i], l.tip)]
                      all == [i \in 1..Len(l.items) |-> hash(la[i].b, "Sha256")]
                                 \o [i \in 1..Len(r.items) |-> hash(ra[i].b, "Sha256")]
                      tip == TimestampBuilder_result(all[1])
                  IN  IF \E i \in 1..Len(la) : ~la[i].ok
                      THEN [panic |-> "overflow", items |-> items, tip |-> <<>>]
                      ELSE IF \E i \in 1..Len(ra) : ~ra[i].ok
                      THEN [panic |-> "overflow", items |-> items, tip |-> <<>>]
                      ELSE IF BLen(tip) # 32
                      THEN [panic |-> "32 byte digest", items |-> all, tip |-> <<>>]
                      ELSE IF tip # TimestampBuilder_result(all[Len(all)])
                      THEN [panic |-> "assertion failed", items |-> all, tip |-> <<>>]
                      ELSE [panic |-> "", items |-> all, tip |-> tip]

RECURSIVE build_merkle_tree(_)
build_merkle_tree(items) ==
    IF Len(items) = 0 THEN [panic |-> "assertion failed", items |-> items, tip |-> <<>>]
    ELSE IF Len(items) = 1
    THEN LET it == IF BLen(items[1].msg) # 32 THEN hash(items[1], "Sha256") ELSE items[1]
         IN  IF BLen(TimestampBuilder_result(it)) # 32
             THEN [panic |-> "32 byte digest", items |-> <<it>>, tip |-> <<>>]
             ELSE [panic |-> "", items |-> <<it>>, tip |-> TimestampBuilder_result(it)]
    ELSE LET mid == Len(items) \div 2
             l == build_merkle_tree(SubSeq(items, 1, mid))
             r == build_merkle_tree(SubSeq(items, mid + 1, Len(items)))
         IN  IF l.panic # "" THEN [panic |-> l.panic, items |-> items, tip |-> <<>>]
             ELSE IF r.panic # "" THEN [panic |-> r.panic, items |-> items, tip |-> <<>>]
             ELSE LET la == [i \in 1..Len(l.items) |-> append(l.items[i], r.tip)]
                      ra == [i \in 1..Len(r.items) |-> prepend(r.items[i], l.tip)]
                      all == [i \in 1..Len(l.items) |-> hash(la[i].b, "Sha256")]
                                 \o [i \in 1..Len(r.items) |-> hash(ra[i].b, "Sha256")]
                      tip == TimestampBuilder_result(all[1])
                  IN  IF \E i \in 1..Len(la) : ~la[i].ok
                      THEN [panic |-> "overflow", items |-> items, tip |-> <<>>]
                      ELSE IF \E i \in 1..Len(ra) : ~ra[i].ok
                      THEN [panic |-> "overflow", items |-> items, tip |-> <<>>]
                      ELSE IF BLen(tip) # 32
                      THEN [panic |-> "32 byte digest", items |-> all, tip |-> <<>>]
                      ELSE IF tip # TimestampBuilder_result(all[Len(all)])
                      THEN [panic |-> "assertion failed", items |-> all, tip |-> <<>>]
                      ELSE [panic |-> "", items |-> all, tip |-> tip]

Msg32(b) == Rep(b, 32)

\* Builders a caller may hand to MerkleTreeBuilder::new.
TreeItems ==
    { TimestampBuilder_new(Msg32(0)),
      TimestampBuilder_new(Msg32(1)),
      TimestampBuilder_new(MsgA),
      hash(TimestampBuilder_new(MsgA), "Sha256"),
      hash(TimestampBuilder_new(Msg32(0)), "Sha1") }

InitTree ==
    /\ BIdle
    /\ subs = <<>>
    /\ DIdle
    /\ EIdle
    /\ t_pc = "init"
    /\ t_in \in SeqsUpTo(TreeItems, MaxItems)
    /\ t_items = <<>>
    /\ t_tip = <<>>
    /\ t_arg = <<>>
    /\ t_out = <<>>
    /\ CIdle
    /\ RIdle

MerkleTreeBuilder_new ==
    /\ Running /\ t_pc = "init"
    /\ LET r == build_merkle_tree(t_in)
       IN  IF r.panic # ""
           THEN /\ panic' = r.panic
                /\ t_pc' = "new_panicked"
                /\ UNCHANGED <<t_items, t_tip>>
           ELSE /\ t_items' = r.items
                /\ t_tip' = r.tip
                /\ t_pc' = "built"
                /\ UNCHANGED panic
    /\ UNCHANGED <<t_in, t_arg, t_out, bvars, dvars, evars, cvars, rvars>>

\* finish: the assertion, then todo!().
MerkleTreeBuilder_finish(tip_timestamp) ==
    /\ Running /\ t_pc = "built"
    /\ t_arg' = <<tip_timestamp>>
    /\ t_pc' = "finish"
    /\ panic' = IF TimestampBuilder_result(t_items[1]) # tip_timestamp.msg
                THEN "assertion failed"
                ELSE "not yet implemented"
    /\ UNCHANGED <<t_in, t_items, t_tip, t_out, bvars, dvars, evars, cvars, rvars>>

NextTree ==
    \/ MerkleTreeBuilder_new
    \/ \E m \in {t_tip, MsgA}, a \in AttAlphabet :
          MerkleTreeBuilder_finish(Timestamp(m, <<StepAttestation(a)>>))

SpecTree == InitTree /\ [][NextTree]_vars

\* ------------------------------------------------------------------------
\* The codec and Op::eval called directly: ser.rs, op.rs, attestation.rs
\* ------------------------------------------------------------------------

\* Bytes of the longest varint the inputs contain.
MaxVarintLen == 10

\* Digits of a value that fits the type.
IsU64(d) == Len(d) < 10 \/ (Len(d) = 10 /\ d[10] <= 1)

IsU32(d) == Len(d) < 5 \/ (Len(d) = 5 /\ d[5] <= 15)

\* Values with every 7-bit group all zeros or all ones below the top group:
\* 0, 1, 127, 128, ..., 2^32 - 1, ..., 2^63, ..., 2^64 - 1.
VarintValues ==
    {<<>>} \cup
    { body \o <<top>> : body \in SeqsUpTo({0, 127}, MaxVarintLen - 1), top \in {1, 15, 127} }

U64Values == {d \in VarintValues : IsU64(d)}

U32Values == {d \in VarintValues : IsU32(d)}

\* Byte strings handed to the varint readers: continuation bytes, then at
\* most two more bytes.
VarintWires ==
    { Rep(c, k) \o Bytes(t) : c \in {128, 255}, k \in 0..MaxVarintLen,
                              t \in {<<>>, <<0>>, <<1>>, <<127>>, <<16>>, <<2>>, <<1, 5>>, <<129, 0>>} }

\* Messages of 2048, 2049 and 4095 bytes.
Msg2048 == <<HexN(Digest(8, <<>>), 6)>>

Msg2049 == Msg2048 \o MsgA

Msg4095 ==
    <<HexN(Digest(8, <<>>), 6), HexN(Digest(8, <<>>), 5), HexN(Digest(8, <<>>), 4),
      HexN(Digest(8, <<>>), 3), HexN(Digest(8, <<>>), 2), HexN(Digest(8, <<>>), 1),
      Digest(8, <<>>), Digest(2, <<>>)>> \o Rep(0, 11)

OpMsgs == {<<>>, MsgA, Bytes(<<0, 171, 205>>), Msg2048, Msg2049, Msg4095, BigMsg}

OpArgs == {<<>>, MsgA, Bytes(<<97, 98>>)}

CodecOps ==
    {OpHash(h) : h \in HashOps} \cup {OpAppend(b) : b \in OpArgs}
        \cup {OpPrepend(b) : b \in OpArgs} \cup {OpHexlify}

\* Attestation values a caller can construct.
Payloads == {<<>>, Bytes(<<7>>), Bytes(<<1, 0>>), BigMsg, BigMsg \o BigMsg, BigMsg \o BigMsg \o MsgA}

AttValues ==
    {AttBitcoin(h) : h \in {<<>>, Num(42), Num(300), <<127, 127, 127, 127, 15>>}}
        \cup {AttPending(u) : u \in {<<>>, MsgA, Bytes(<<97, 46, 98, 58, 47, 45, 95, 90, 48>>)}}
        \cup {AttUnknown(t, pl) : t \in {UnknownTag, BITCOIN_ATTESTATION_TAG, PENDING_ATTESTATION_TAG},
                                 pl \in Payloads}

\* Byte strings handed to Attestation::deserialize: a tag, the length-prefixed
\* payload, and what follows the attestation in the reader.
AttWires ==
    { t \o serialize_varbytes(pl) \o rest :
        t \in {UnknownTag, BITCOIN_ATTESTATION_TAG, PENDING_ATTESTATION_TAG},
        pl \in {<<>>, Bytes(<<1>>), Bytes(<<1, 0>>), Bytes(<<128>>), Bytes(<<0>>),
                Bytes(<<0, 97>>), Bytes(<<1, 97>>), Bytes(<<1, 97, 98>>), Bytes(<<1, 32>>),
                Bytes(<<255, 255, 255, 255, 127>>), Bytes(<<172, 2, 9>>)},
        rest \in {<<>>, Bytes(<<8>>)} }

\* What follows the written bytes in the reader handed to the deserializer.
Tails == {<<>>, Bytes(<<8>>)}

CallOf(fn, n, op, msg, att, tail, raw) ==
    [fn |-> fn, n |-> n, op |-> op, msg |-> msg, att |-> att, tail |-> tail, raw |-> raw]

InitCodec ==
    /\ BIdle
    /\ subs = <<>>
    /\ DIdle
    /\ EIdle
    /\ TIdle
    /\ RIdle
    /\ c_out = <<>>
    /\ \/ /\ c_pc = "value"
          /\ c_wire = <<>>
          /\ \/ \E n \in U64Values, t \in Tails :
                    c_in = CallOf("u64", n, NoOp, <<>>, NoAtt, t, FALSE)
             \/ \E n \in U32Values, t \in Tails :
                    c_in = CallOf("u32", n, NoOp, <<>>, NoAtt, t, FALSE)
             \/ \E a \in AttValues, t \in Tails :
                    c_in = CallOf("att", <<>>, NoOp, <<>>, a, t, FALSE)
             \/ \E op \in CodecOps, m \in OpMsgs :
                    c_in = CallOf("op", <<>>, op, m, NoAtt, <<>>, FALSE)
       \/ /\ c_pc = "bytes"
          /\ \/ /\ c_wire \in VarintWires
                /\ c_in \in {CallOf(fn, <<>>, NoOp, <<>>, NoAtt, <<>>, TRUE) : fn \in {"u64", "u32"}}
             \/ /\ c_wire \in AttWires
                /\ c_in = CallOf("att", <<>>, NoOp, <<>>, NoAtt, <<>>, TRUE)

\* serialize_u64(n, writer) on an empty Vec
Call_serialize_u64 ==
    /\ c_pc = "value" /\ c_in.fn = "u64"
    /\ c_wire' = serialize_u64(c_in.n)
    /\ c_pc' = "bytes"
    /\ UNCHANGED <<c_in, c_out, panic, bvars, dvars, evars, tvars, rvars>>

Call_serialize_u32 ==
    /\ c_pc = "value" /\ c_in.fn = "u32"
    /\ c_wire' = serialize_u32(c_in.n)
    /\ c_pc' = "bytes"
    /\ UNCHANGED <<c_in, c_out, panic, bvars, dvars, evars, tvars, rvars>>

Call_Attestation_serialize ==
    /\ c_pc = "value" /\ c_in.fn = "att"
    /\ c_wire' = Attestation_serialize(c_in.att)
    /\ c_pc' = "bytes"
    /\ UNCHANGED <<c_in, c_out, panic, bvars, dvars, evars, tvars, rvars>>

Call_deserialize_u64 ==
    /\ c_pc = "bytes" /\ c_in.fn = "u64"
    /\ c_out' = <<deserialize_u64(c_wire \o c_in.tail)>>
    /\ c_pc' = "done"
    /\ UNCHANGED <<c_in, c_wire, panic, bvars, dvars, evars, tvars, rvars>>

Call_deserialize_u32 ==
    /\ c_pc = "bytes" /\ c_in.fn = "u32"
    /\ c_out' = <<deserialize_u32(c_wire \o c_in.tail)>>
    /\ c_pc' = "done"
    /\ UNCHANGED <<c_in, c_wire, panic, bvars, dvars, evars, tvars, rvars>>

Call_Attestation_deserialize ==
    /\ c_pc = "bytes" /\ c_in.fn = "att"
    /\ c_out' = <<Attestation_deserialize(c_wire \o c_in.tail)>>
    /\ c_pc' = "done"
    /\ UNCHANGED <<c_in, c_wire, panic, bvars, dvars, evars, tvars, rvars>>

Call_Op_eval ==
    /\ c_pc = "value" /\ c_in.fn = "op"
    /\ c_out' = <<Op_eval(c_in.op, c_in.msg)>>
    /\ c_pc' = "done"
    /\ UNCHANGED <<c_in, c_wire, panic, bvars, dvars, evars, tvars, rvars>>

NextCodec ==
    \/ Call_serialize_u64
    \/ Call_serialize_u32
    \/ Call_Attestation_serialize
    \/ Call_deserialize_u64
    \/ Call_deserialize_u32
    \/ Call_Attestation_deserialize
    \/ Call_Op_eval

SpecCodec == InitCodec /\ [][NextCodec]_vars

\* ------------------------------------------------------------------------
\* rpc.rs, with the deserializers it calls
\* ------------------------------------------------------------------------

MaxAggregators == 2

MAX_STAMP_LENGTH == 10000

\* Steps::deserialize as one call: the loop runs until tips falls to zero.
RECURSIVE Steps_deserialize(_, _, _)
Steps_deserialize(r, steps, tips) ==
    LET Pushed(s) ==
            IF ~s.ok THEN RErr(s.err)
            ELSE IF tips_next(tips, s.val) >= 1
            THEN Steps_deserialize(s.rest, Append(steps, s.val), tips_next(tips, s.val))
            ELSE ROk(Append(steps, s.val), s.rest)
    IN  Pushed(Step_deserialize(r))

Timestamp_deserialize(msg, r) ==
    LET Wrapped(st) == IF st.ok THEN ROk(Timestamp(msg, st.val), st.rest) ELSE st
    IN  Wrapped(Steps_deserialize(r, <<>>, 1))

\* Output of a spawned task: "Ok" (a Timestamp), "Err" (a PostDigestError),
\* "Elapsed" (the timeout fired first), or "" while it runs.
TaskOut(k, ts, err) == [k |-> k, ts |-> ts, err |-> err]

\* What the server sent: error is "" or the point where the transport failed
\* ("send", "body"); content_length is the Option reqwest reports.
Response(error, status, content_length, body) ==
    [error |-> error, status |-> status, content_length |-> content_length, body |-> body]

post_digest(digest, resp) ==
    IF resp.error = "send" THEN TaskOut("Err", Timestamp(<<>>, <<>>), "Post")
    ELSE IF resp.status # 200 THEN TaskOut("Err", Timestamp(<<>>, <<>>), "BadStatus")
    ELSE IF (IF resp.content_length = <<>> THEN 0 ELSE resp.content_length[1]) > MAX_STAMP_LENGTH
    THEN TaskOut("Err", Timestamp(<<>>, <<>>), "LengthLimitExceeded")
    ELSE IF resp.error = "body" THEN TaskOut("Err", Timestamp(<<>>, <<>>), "Post")
    ELSE LET Matched(t) == IF t.ok THEN TaskOut("Ok", t.val, "")
                           ELSE TaskOut("Err", Timestamp(<<>>, <<>>), "Deserialize")
         IN  Matched(Timestamp_deserialize(digest, resp.body))

\* Mutant of on_joined: a success replaces the successes collected so far.
on_joined_mut(succ, fail, r) ==
    CASE r.k = "Elapsed" -> [panic |-> "FIXME: handle timeouts", successes |-> succ, failures |-> fail]
      [] r.k = "Ok" -> [panic |-> "", successes |-> <<r.ts>>, failures |-> fail]
      [] r.k = "Err" -> [panic |-> "", successes |-> succ, failures |-> Append(fail, r.err)]

\* stamp_with_options: the body of the join loop, for the output r of one task.
on_joined(succ, fail, r) ==
    CASE r.k = "Elapsed" -> [panic |-> "FIXME: handle timeouts", successes |-> succ, failures |-> fail]
      [] r.k = "Ok" -> [panic |-> "", successes |-> Append(succ, r.ts), failures |-> fail]
      [] r.k = "Err" -> [panic |-> "", successes |-> succ, failures |-> Append(fail, r.err)]

\* Mutant of stamp_result: the quorum needs more than min_attestations.
stamp_result_mut(digest, succ, fail, min_attestations) ==
    IF Len(succ) > min_attestations
    THEN LET Joined(t) == [panic |-> t.panic, ok |-> TRUE, ts |-> t.ts, failures |-> <<>>]
         IN  Joined(finish_with_timestamps(TimestampBuilder_new(digest), succ))
    ELSE [panic |-> FALSE, ok |-> FALSE, ts |-> Timestamp(<<>>, <<>>), failures |-> fail]

\* stamp_with_options: what follows the join loop.
stamp_result(digest, succ, fail, min_attestations) ==
    IF Len(succ) >= min_attestations
    THEN LET Joined(t) == [panic |-> t.panic, ok |-> TRUE, ts |-> t.ts, failures |-> <<>>]
         IN  Joined(finish_with_timestamps(TimestampBuilder_new(digest), succ))
    ELSE [panic |-> FALSE, ok |-> FALSE, ts |-> Timestamp(<<>>, <<>>), failures |-> fail]

\* The digest submitted.
StampDigest == Msg32(0)

\* A proof longer than MAX_STAMP_LENGTH: three Appends of 4096 bytes and an
\* attestation.
LongBody ==
    Steps_serialize(<<StepOp(OpAppend(BigMsg)), StepOp(OpAppend(BigMsg)),
                      StepOp(OpAppend(BigMsg)), StepAttestation(AttBitcoin(Num(44)))>>)

\* What an aggregator may answer.
Responses ==
    { Response("", 200, <<10>>, Steps_serialize(<<StepAttestation(AttBitcoin(Num(42)))>>)),
      Response("", 200, <<>>, Steps_serialize(<<StepAttestation(AttBitcoin(Num(43)))>>)),
      Response("", 200, <<18>>,
               Steps_serialize(<<StepOp(OpHash("Sha256")), StepFork,
                                 StepAttestation(AttBitcoin(Num(42))),
                                 StepAttestation(AttPending(MsgA))>>)),
      Response("", 404, <<9>>, Bytes(<<110, 111, 116, 32, 102, 111, 117, 110, 100>>)),
      Response("", 200, <<3>>, Bytes(<<110, 111, 116>>)),
      Response("", 200, <<BLen(LongBody)>>, LongBody),
      Response("", 200, <<>>, LongBody),
      Response("send", 0, <<>>, <<>>),
      Response("body", 200, <<10>>, <<>>) }

NoTask == [st |-> "running", resp |-> Response("", 0, <<>>, <<>>),
           out |-> TaskOut("", Timestamp(<<>>, <<>>), "")]

InitRpc ==
    /\ BIdle
    /\ subs = <<>>
    /\ DIdle
    /\ EIdle
    /\ TIdle
    /\ CIdle
    /\ r_pc = "idle"
    /\ \E n \in 0..MaxAggregators, m \in 1..(MaxAggregators + 1) :
          r_opts = [aggregators |-> n, min_attestations |-> m]
    /\ r_tasks = <<>>
    /\ r_ready = <<>>
    /\ successes = <<>>
    /\ failures = <<>>
    /\ r_ret = <<>>

\* stamp_with_options up to the first join_next().await: one task is spawned
\* per aggregator.
Spawn ==
    /\ Running /\ r_pc = "idle"
    /\ r_tasks' = [i \in 1..r_opts.aggregators |-> NoTask]
    /\ r_pc' = "join"
    /\ UNCHANGED <<r_opts, r_ready, successes, failures, r_ret, panic,
                   bvars, dvars, evars, tvars, cvars>>

\* Task i: post_digest runs to its end before the timeout.
TaskRespond(i, resp) ==
    /\ Running /\ r_pc = "join" /\ r_tasks[i].st = "running"
    /\ r_tasks' = [r_tasks EXCEPT ![i] = [st |-> "done", resp |-> resp,
                                          out |-> post_digest(StampDigest, resp)]]
    /\ r_ready' = Append(r_ready, i)
    /\ UNCHANGED <<r_pc, r_opts, successes, failures, r_ret, panic,
                   bvars, dvars, evars, tvars, cvars>>

\* Task i: the timeout fires first; post_digest is dropped.
TaskTimeout(i) ==
    /\ Running /\ r_pc = "join" /\ r_tasks[i].st = "running"
    /\ r_tasks' = [r_tasks EXCEPT ![i] = [st |-> "done", resp |-> @.resp,
                                          out |-> TaskOut("Elapsed", Timestamp(<<>>, <<>>), "")]]
    /\ r_ready' = Append(r_ready, i)
    /\ UNCHANGED <<r_pc, r_opts, successes, failures, r_ret, panic,
                   bvars, dvars, evars, tvars, cvars>>

\* One iteration of the join loop: join_next() yields the task that completed
\* first. A panic drops the JoinSet, which aborts the tasks still in it.
JoinNext ==
    /\ Running /\ r_pc = "join" /\ r_ready # <<>>
    /\ LET Body(j) ==
               /\ successes' = j.successes
               /\ failures' = j.failures
               /\ panic' = j.panic
               /\ r_pc' = IF j.panic # "" THEN "panicked" ELSE "join"
               /\ r_tasks' = [i \in 1..Len(r_tasks) |->
                                 IF i = r_ready[1] THEN [r_tasks[i] EXCEPT !.st = "joined"]
                                 ELSE IF j.panic # "" THEN [r_tasks[i] EXCEPT !.st = "aborted"]
                                 ELSE r_tasks[i]]
       IN  Body(on_joined(successes, failures, r_tasks[r_ready[1]].out))
    /\ r_ready' = Tail(r_ready)
    /\ UNCHANGED <<r_opts, r_ret, bvars, dvars, evars, tvars, cvars>>

\* Mutant of Return: the call returns once min_attestations successes have
\* been joined, whatever is still in the set.
Return_mut ==
    /\ Running /\ r_pc = "join"
    /\ \/ \A i \in 1..Len(r_tasks) : r_tasks[i].st = "joined"
       \/ Len(successes) >= r_opts.min_attestations
    /\ LET Body(r) ==
               IF r.panic
               THEN /\ panic' = "assertion failed"
                    /\ r_pc' = "panicked"
                    /\ UNCHANGED r_ret
               ELSE /\ r_ret' = <<r>>
                    /\ r_pc' = "returned"
                    /\ UNCHANGED panic
       IN  Body(stamp_result(StampDigest, successes, failures, r_opts.min_attestations))
    /\ UNCHANGED <<r_opts, r_tasks, r_ready, successes, failures,
                   bvars, dvars, evars, tvars, cvars>>

\* join_next() yields None: the set is empty, and the call returns.
Return ==
    /\ Running /\ r_pc = "join"
    /\ \A i \in 1..Len(r_tasks) : r_tasks[i].st = "joined"
    /\ LET Body(r) ==
               IF r.panic
               THEN /\ panic' = "assertion failed"
                    /\ r_pc' = "panicked"
                    /\ UNCHANGED r_ret
               ELSE /\ r_ret' = <<r>>
                    /\ r_pc' = "returned"
                    /\ UNCHANGED panic
       IN  Body(stamp_result(StampDigest, successes, failures, r_opts.min_attestations))
    /\ UNCHANGED <<r_opts, r_tasks, r_ready, successes, failures,
                   bvars, dvars, evars, tvars, cvars>>

NextRpc ==
    \/ Spawn
    \/ \E i \in 1..Len(r_tasks), resp \in Responses : TaskRespond(i, resp)
    \/ \E i \in 1..Len(r_tasks) : TaskTimeout(i)
    \/ JoinNext
    \/ Return

SpecRpc == InitRpc /\ [][NextRpc]_vars

\* ------------------------------------------------------------------------
\* timestamp/detached.rs
\* ------------------------------------------------------------------------

FileDigest(kind, digest) == [kind |-> kind, digest |-> digest]

HEADER_MAGIC ==
    Bytes(<<0, 79, 112, 101, 110, 84, 105, 109, 101, 115, 116, 97, 109, 112, 115, 0,
            0, 80, 114, 111, 111, 102, 0, 191, 137, 226, 232, 132, 232, 146, 148>>)

MAJOR_VERSION == 1

DetachedTimestampFile_serialize(f) ==
    HEADER_MAGIC
        \o <<B(MAJOR_VERSION)>>
        \o <<B(CASE f.msg.kind = "Sha1" -> 2
                 [] f.msg.kind = "Ripemd160" -> 2
                 [] f.msg.kind = "Sha256" -> 8)>>
        \o f.msg.digest
        \o Steps_serialize(f.steps)

DetachedTimestampFile_deserialize(r) ==
    LET Inner(kind, digest) ==
            IF ~digest.ok THEN RErr(digest.err)
            ELSE Timestamp_deserialize(FileDigest(kind, digest.val), digest.rest)
        Op(op) ==
            IF ~op.ok THEN RErr(op.err)
            ELSE CASE op.val = 2 -> Inner("Sha1", read_exact(op.rest, 20))
                   [] op.val = 3 -> Inner("Ripemd160", read_exact(op.rest, 20))
                   [] op.val = 8 -> Inner("Sha256", read_exact(op.rest, 32))
                   [] OTHER -> RErr("unknown op")
        Major(major) ==
            IF ~major.ok THEN RErr(major.err)
            ELSE IF major.val # MAJOR_VERSION THEN RErr("bad major version")
            ELSE Op(read_u8(major.rest))
        Magic(magic) ==
            IF ~magic.ok THEN RErr(magic.err)
            ELSE IF magic.val # HEADER_MAGIC THEN RErr("bad magic")
            ELSE Major(read_u8(magic.rest))
    IN  Magic(read_exact(r, 31))

\* The files serialized: every kind of FileDigest, over two or four digests of
\* its length, with four step sequences.
FileDigests ==
    {FileDigest(k, <<Digest(a, m)>>) : k \in {"Sha1", "Ripemd160"}, a \in {2, 3}, m \in {<<>>, MsgA}}
        \cup {FileDigest("Sha256", <<Digest(8, m)>>) : m \in {<<>>, MsgA}}

FileSteps ==
    { <<StepAttestation(AttBitcoin(Num(300)))>>,
      <<StepOp(OpHash("Sha256")), StepAttestation(AttPending(MsgA))>>,
      <<StepOp(OpAppend(MsgA)), StepOp(OpHash("Ripemd160")),
        StepAttestation(AttUnknown(UnknownTag, Bytes(<<7>>)))>>,
      <<StepFork, StepAttestation(AttBitcoin(Num(300))), StepAttestation(AttPending(MsgA))>> }

Files == {Timestamp(d, st) : d \in FileDigests, st \in FileSteps}

\* Bytes handed to deserialize that no serializer call wrote: a file cut
\* short, a wrong magic, a wrong version, an unknown digest tag, and a file
\* with the tag 3 of Ripemd160.
FileWires ==
    { <<>>,
      SubSeq(HEADER_MAGIC, 1, 30),
      Bytes(<<1>>) \o Tail(HEADER_MAGIC) \o Bytes(<<1, 8>>),
      HEADER_MAGIC \o Bytes(<<2, 8>>),
      HEADER_MAGIC \o Bytes(<<1>>),
      HEADER_MAGIC \o Bytes(<<1, 4>>),
      HEADER_MAGIC \o Bytes(<<1, 8>>) \o MsgA,
      HEADER_MAGIC \o Bytes(<<1, 8>>) \o <<Digest(8, <<>>)>>,
      HEADER_MAGIC \o Bytes(<<1, 3>>) \o <<Digest(3, <<>>)>>
          \o Steps_serialize(<<StepAttestation(AttBitcoin(Num(300)))>>) }

FileCall(file, raw) == [fn |-> "DetachedTimestampFile", file |-> file, raw |-> raw]

InitFile ==
    /\ BIdle
    /\ subs = <<>>
    /\ DIdle
    /\ EIdle
    /\ TIdle
    /\ RIdle
    /\ c_out = <<>>
    /\ \/ \E f \in Files :
             /\ c_pc = "value"
             /\ c_in = FileCall(f, FALSE)
             /\ c_wire = <<>>
       \/ \E w \in FileWires :
             /\ c_pc = "bytes"
             /\ c_in = FileCall(Timestamp(FileDigest("", <<>>), <<>>), TRUE)
             /\ c_wire = w

\* DetachedTimestampFile::to_serialized_bytes on the file.
Call_File_serialize ==
    /\ Running /\ c_pc = "value"
    /\ c_wire' = DetachedTimestampFile_serialize(c_in.file)
    /\ c_pc' = "bytes"
    /\ UNCHANGED <<c_in, c_out, panic, bvars, dvars, evars, tvars, rvars>>

\* DetachedTimestampFile::deserialize on the bytes.
Call_File_deserialize ==
    /\ Running /\ c_pc = "bytes"
    /\ c_out' = <<DetachedTimestampFile_deserialize(c_wire)>>
    /\ c_pc' = "done"
    /\ UNCHANGED <<c_in, c_wire, panic, bvars, dvars, evars, tvars, rvars>>

NextFile ==
    \/ Call_File_serialize
    \/ Call_File_deserialize

SpecFile == InitFile /\ [][NextFile]_vars

\* ------------------------------------------------------------------------
\* Step and UriString called directly: timestamp.rs, attestation/uri.rs
\* ------------------------------------------------------------------------

\* A string of exactly UriString::MAX_LENGTH allowed bytes: hex digits.
Uri1000 ==
    <<HexN(Digest(8, <<>>), 4), HexN(Digest(8, <<>>), 3), HexN(Digest(8, <<>>), 2),
      HexN(Digest(8, <<>>), 1), HexN(Digest(2, <<>>), 1)>>

\* Arguments of Append and Prepend: 0, 1, 4095, 4096, 4097 and 8192 bytes.
StepArgs == {<<>>, MsgA, Msg4095, BigMsg, BigMsg \o MsgA, BigMsg \o BigMsg}

\* Step is a public enum: every value can be constructed and serialized.
StepValues ==
    {StepOp(OpAppend(m)) : m \in StepArgs} \cup {StepOp(OpPrepend(m)) : m \in StepArgs}
        \cup {StepOp(OpHash(h)) : h \in HashOps}
        \cup {StepOp(OpHexlify), StepFork, StepAttestation(AttBitcoin(Num(300)))}

\* Bytes handed to Step::deserialize: an Append or Prepend tag, a declared
\* length, and an argument that is complete, cut short, missing or followed
\* by more bytes (where the argument ends between two pieces).
StepWires ==
    UNION { { <<B(t)>> \o serialize_u64(Num(n)) \o body :
                t \in {240, 241},
                body \in {b \in {<<>>, MsgA, Msg4095, BigMsg, BigMsg \o MsgA} :
                             n > MAX_OUTPUT_LENGTH \/ BLen(b) < n \/ Aligned(b, n)} } :
            n \in {1, 4095, 4096, 4097, 8192} }
        \cup {<<>>, Bytes(<<7>>), Bytes(<<240>>)}

\* Strings handed to TryFrom: the length boundary, every boundary of the
\* allowed ranges, and bytes above 127 as they occur in UTF-8.
UriStrs ==
    { <<>>, MsgA, Bytes(<<97, 46, 98, 58, 47, 45, 95, 90, 48>>),
      Bytes(<<65, 90, 97, 122, 48, 57>>),
      Uri1000, Uri1000 \o MsgA, Uri1000 \o Bytes(<<32>>),
      SubSeq(Uri1000, 1, 4) \o Bytes(<<32>>), Bytes(<<32>>) \o Uri1000,
      Bytes(<<97, 32, 98>>), Bytes(<<97, 0, 64>>), Bytes(<<195, 169>>),
      Bytes(<<104, 116, 116, 112, 63>>) }
        \cup {Bytes(<<c>>) : c \in {0, 44, 45, 46, 47, 48, 57, 58, 59, 64, 65, 90, 91, 94, 95, 96,
                                    97, 122, 123, 127, 128, 255}}

\* Bytes handed to UriString::deserialize: a length, a string, and what
\* follows; lengths that disagree with the string; the source's own test
\* vector for TooLong.
UriWires ==
    {serialize_u64(Num(BLen(s))) \o s \o t : s \in UriStrs, t \in Tails}
        \cup UNION { { serialize_u64(Num(n)) \o s :
                        s \in {b \in {<<>>, MsgA, Uri1000, Uri1000 \o MsgA} :
                                  n > UriString_MAX_LENGTH \/ BLen(b) < n \/ Aligned(b, n)} } :
                    n \in {1, 1000, 1001} }
        \cup {Bytes(<<128, 128, 128, 128, 128, 1>>), Bytes(<<128>>), <<>>}

DirectCall(fn, step, str, tail, raw) ==
    [fn |-> fn, step |-> step, str |-> str, tail |-> tail, raw |-> raw]

InitStep ==
    /\ BIdle
    /\ subs = <<>>
    /\ DIdle
    /\ EIdle
    /\ TIdle
    /\ RIdle
    /\ c_out = <<>>
    /\ \/ /\ c_pc = "value"
          /\ c_wire = <<>>
          /\ \/ \E st \in StepValues, t \in Tails :
                    c_in = DirectCall("Step", st, <<>>, t, FALSE)
             \/ \E s \in UriStrs :
                    c_in = DirectCall("UriString", StepFork, s, <<>>, FALSE)
       \/ /\ c_pc = "bytes"
          /\ \/ /\ c_wire \in StepWires
                /\ c_in = DirectCall("Step", StepFork, <<>>, <<>>, TRUE)
             \/ /\ c_wire \in UriWires
                /\ c_in = DirectCall("UriString", StepFork, <<>>, <<>>, TRUE)

\* Step::to_serialized_bytes: serialize into an empty Vec.
Call_Step_serialize ==
    /\ Running /\ c_pc = "value" /\ c_in.fn = "Step"
    /\ c_wire' = Step_serialize(c_in.step)
    /\ c_pc' = "bytes"
    /\ UNCHANGED <<c_in, c_out, panic, bvars, dvars, evars, tvars, rvars>>

Call_Step_deserialize ==
    /\ Running /\ c_pc = "bytes" /\ c_in.fn = "Step"
    /\ c_out' = <<Step_deserialize(c_wire \o c_in.tail)>>
    /\ c_pc' = "done"
    /\ UNCHANGED <<c_in, c_wire, panic, bvars, dvars, evars, tvars, rvars>>

\* UriString::try_from(s), and serialize of the UriString when there is one.
Call_UriString_try_from ==
    /\ Running /\ c_pc = "value" /\ c_in.fn = "UriString"
    /\ c_out' = <<UriString_try_from(c_in.str)>>
    /\ c_wire' = IF UriString_try_from(c_in.str).ok THEN UriString_serialize(c_in.str) ELSE <<>>
    /\ c_pc' = "done"
    /\ UNCHANGED <<c_in, panic, bvars, dvars, evars, tvars, rvars>>

Call_UriString_deserialize ==
    /\ Running /\ c_pc = "bytes" /\ c_in.fn = "UriString"
    /\ c_out' = <<UriString_deserialize(c_wire)>>
    /\ c_pc' = "done"
    /\ UNCHANGED <<c_in, c_wire, panic, bvars, dvars, evars, tvars, rvars>>

NextStep ==
    \/ Call_Step_serialize
    \/ Call_Step_deserialize
    \/ Call_UriString_try_from
    \/ Call_UriString_deserialize

SpecStep == InitStep /\ [][NextStep]_vars

\* ------------------------------------------------------------------------
\* Properties of Spec
\* ------------------------------------------------------------------------

\* Tips counter after the first n steps: 1 + Forks - Attestations.
TipsAfter(steps, n) ==
    1 + CountKind(SubSeq(steps, 1, n), "Fork") - CountKind(SubSeq(steps, 1, n), "Attestation")

WellFormed(steps) ==
    /\ steps # <<>>
    /\ \A n \in 0..(Len(steps) - 1) : TipsAfter(steps, n) > 0
    /\ TipsAfter(steps, Len(steps)) = 0

\* Number of steps the evaluator has consumed.
Consumed == Len(ev_in.steps) - Len(ev.next_steps)

RECURSIVE SumKind(_, _)
SumKind(tss, kind) ==
    IF tss = <<>> THEN 0 ELSE CountKind(tss[1].steps, kind) + SumKind(Tail(tss), kind)

RECURSIVE SumLen(_)
SumLen(tss) == IF tss = <<>> THEN 0 ELSE Len(tss[1].steps) + SumLen(Tail(tss))

Min(a, b) == IF a < b THEN a ELSE b

\* Index in the joined steps of the first step of the j-th sub-timestamp.
SubStart(g, j) ==
    Len(g.bsteps) + SumLen(SubSeq(g.subs, 1, j - 1)) + Min(j, Len(g.subs) - 1) + 1

BuiltByBuilder(origin) == origin \in {"attestation", "timestamps"}

\* C1 (as claimed): a Timestamp produced by the builder, serialized and
\* deserialized with its own msg, deserializes successfully to an equal value.
C1_RoundTrip ==
    (/\ d_in.src # <<>>
     /\ d_pc \in {"ok", "err"}
     /\ BuiltByBuilder(d_in.src[1].origin)
     /\ d_in.msg = d_in.src[1].ts.msg)
    => (d_pc = "ok" /\ Timestamp(d_in.msg, d_steps) = d_in.src[1].ts)

\* C2 (as claimed): evaluating a Timestamp obtained from the builder or from
\* Timestamp::deserialize never fails: no InsufficientSteps, no failed Op, no
\* steps left over once every branch is closed.
C2_TimestampInvariant ==
    ev_on => ev_ret.kind \notin {"Err", "Panic"}

\* C4: for a chain of ops finished with finish_with_attestation(a) the
\* evaluator runs without error, the only attestation it emits is the last
\* step, and it emits a with the bytes result() had when finishing.
C4_EvaluatorMatchesBuilder ==
    (ev_on /\ ev_in.ghost.origin = "attestation") =>
        /\ ev_ret.kind \in {"Init", "Ok", "None"}
        /\ (ev_ret.kind = "Ok" /\ ev.next_steps = <<>>) =>
                /\ ev_ret.step = StepAttestation(ev_in.ghost.att[1])
                /\ ev_ret.msg = ev_in.ghost.result
        /\ (ev_ret.kind = "Ok" /\ ev_ret.step.s = "Attestation") => ev.next_steps = <<>>

C4_Witness ==
    /\ ev_on /\ ev_in.ghost.origin = "attestation"
    /\ Len(ev_in.ghost.bsteps) >= 2
    /\ ev_ret.kind = "Ok" /\ ev_ret.step.s = "Attestation"
    /\ ev_ret.msg = ev_in.ghost.result
    /\ ev_ret.msg # ev_in.msg

AllWellFormed(tss) == \A i \in 1..Len(tss) : WellFormed(tss[i].steps)

\* C5 (as claimed): finish_with_timestamps with k >= 1 sub-timestamps (taken
\* here to be well-formed ones) gives a proof with k-1 Forks and at least k
\* attestations, and the evaluator shows B.result() at every attestation.
C5_AsClaimed ==
    /\ (/\ cur # <<>> /\ ghost.origin = "timestamps" /\ Len(ghost.subs) >= 1
        /\ AllWellFormed(ghost.subs)) =>
            /\ CountKind(cur[1].steps, "Fork") = Len(ghost.subs) - 1
            /\ CountKind(cur[1].steps, "Attestation") >= Len(ghost.subs)
    /\ (/\ ev_on /\ ev_in.ghost.origin = "timestamps" /\ Len(ev_in.ghost.subs) >= 1
        /\ AllWellFormed(ev_in.ghost.subs)
        /\ ev_ret.kind = "Ok" /\ ev_ret.step.s = "Attestation") =>
            ev_ret.msg = ev_in.ghost.result

\* C5 (amended): the proof has k-1 Forks more than the sub-timestamps hold and
\* exactly their attestations (so at least k when each sub-timestamp is
\* well-formed), and the evaluator reaches the first step of a sub-timestamp
\* with B.result() as the current message whenever the sub-timestamps before
\* it are well-formed; an attestation that is the only step of such a
\* sub-timestamp is therefore shown with B.result().
C5_ForkFanOut ==
    /\ (cur # <<>> /\ ghost.origin = "timestamps" /\ Len(ghost.subs) >= 1) =>
            /\ CountKind(cur[1].steps, "Fork")
                   = Len(ghost.subs) - 1 + SumKind(ghost.subs, "Fork")
            /\ CountKind(cur[1].steps, "Attestation") = SumKind(ghost.subs, "Attestation")
            /\ AllWellFormed(ghost.subs) =>
                   CountKind(cur[1].steps, "Attestation") >= Len(ghost.subs)
    /\ (ev_on /\ ev_in.ghost.origin = "timestamps") =>
            \A j \in 1..Len(ev_in.ghost.subs) :
                AllWellFormed(SubSeq(ev_in.ghost.subs, 1, j - 1)) =>
                    /\ Consumed = SubStart(ev_in.ghost, j) - 1 =>
                           /\ ev.stack # <<>>
                           /\ Last(ev.stack) = ev_in.ghost.result
                    /\ (/\ Consumed = SubStart(ev_in.ghost, j)
                        /\ Len(ev_in.ghost.subs[j].steps) = 1
                        /\ ev_ret.kind = "Ok" /\ ev_ret.step.s = "Attestation") =>
                           ev_ret.msg = ev_in.ghost.result

C5_Witness ==
    /\ ev_on /\ ev_in.ghost.origin = "timestamps"
    /\ Len(ev_in.ghost.subs) = 2
    /\ ev_in.ghost.bsteps # <<>>
    /\ WellFormed(ev_in.ghost.subs[1].steps)
    /\ Len(ev_in.ghost.subs[1].steps) > 1
    /\ Len(ev_in.ghost.subs[2].steps) = 1
    /\ ev.next_steps = <<>>
    /\ ev_ret.kind = "Ok" /\ ev_ret.step.s = "Attestation"
    /\ ev_ret.msg = ev_in.ghost.result

\* ------------------------------------------------------------------------
\* Properties of SpecDeser
\* ------------------------------------------------------------------------

\* Step::deserialize applied n times in a row.
RECURSIVE ParseN(_, _)
ParseN(r, n) ==
    IF n = 0 THEN [ok |-> TRUE, steps |-> <<>>, rest |-> r]
    ELSE LET x == Step_deserialize(r)
         IN  IF ~x.ok THEN [ok |-> FALSE, steps |-> <<>>, rest |-> <<>>]
             ELSE LET y == ParseN(x.rest, n - 1)
                  IN  [ok |-> y.ok, steps |-> <<x.val>> \o y.steps, rest |-> y.rest]

\* C3: tips is 1 + Forks - Attestations of the steps read so far; the loop
\* runs (and fails) only while tips > 0; it returns Ok only with tips = 0,
\* having read exactly the steps it returns and no byte after them, so the
\* returned Steps are well-formed with Attestations = Forks + 1; at the end
\* of the input with tips > 0 the next thing it does is fail.
C3_TipsFraming ==
    /\ [](d_pc \in {"loop", "ok", "err"} =>
            /\ d_tips = TipsAfter(d_steps, Len(d_steps))
            /\ ParseN(d_in.wire, Len(d_steps)) = [ok |-> TRUE, steps |-> d_steps, rest |-> reader]
            /\ d_pc \in {"loop", "err"} =>
                   /\ d_tips >= 1
                   /\ \A n \in 0..Len(d_steps) : TipsAfter(d_steps, n) > 0
            /\ d_pc = "ok" =>
                   /\ d_tips = 0
                   /\ WellFormed(d_steps)
                   /\ CountKind(d_steps, "Attestation") = CountKind(d_steps, "Fork") + 1)
    /\ [][(d_pc = "loop" /\ reader = <<>>) => d_pc' = "err"]_vars

C3_Witness ==
    /\ d_pc = "ok"
    /\ d_in.toks # <<>>
    /\ reader # <<>>
    /\ CountKind(d_steps, "Fork") >= 1

\* The bytes Steps::deserialize has consumed.
ConsumedBytes == SubSeq(d_in.wire, 1, Len(d_in.wire) - Len(reader))

\* C21 (as claimed): when Steps::deserialize accepts its input, serializing
\* the steps it returns reproduces exactly the bytes it consumed.
C21_ReserializeIdentical ==
    d_pc = "ok" => Steps_serialize(d_steps) = ConsumedBytes

\* ------------------------------------------------------------------------
\* Properties of SpecEval
\* ------------------------------------------------------------------------

\* The proof as a tree: the message each step is evaluated on when an Op has
\* one child, a Fork two children that both start from the Fork's message,
\* and an Attestation none.  ins[i] is the message seen by step at + i - 1.
RECURSIVE TreeIn(_, _, _)
TreeIn(m, steps, at) ==
    IF at > Len(steps) THEN [ins |-> <<>>, next |-> at, stuck |-> TRUE]
    ELSE CASE steps[at].s = "Attestation" -> [ins |-> <<m>>, next |-> at + 1, stuck |-> FALSE]
           [] steps[at].s = "Op" ->
                LET r == Op_eval(steps[at].op, m)
                IN  IF ~r.ok THEN [ins |-> <<m>>, next |-> at, stuck |-> TRUE]
                    ELSE LET t == TreeIn(r.val, steps, at + 1)
                         IN  [ins |-> <<m>> \o t.ins, next |-> t.next, stuck |-> t.stuck]
           [] steps[at].s = "Fork" ->
                LET t1 == TreeIn(m, steps, at + 1)
                IN  IF t1.stuck THEN [ins |-> <<m>> \o t1.ins, next |-> t1.next, stuck |-> TRUE]
                    ELSE LET t2 == TreeIn(m, steps, t1.next)
                         IN  [ins |-> <<m>> \o t1.ins \o t2.ins, next |-> t2.next,
                              stuck |-> t2.stuck]

\* C6: a Fork is emitted with the current message m and leaves m for both
\* branches; every Fork and every Attestation is emitted with the message
\* its own branch of the tree carries, whatever Ops an earlier branch applied.
C6_ForkBranches ==
    (ev_on /\ ev_ret.kind = "Ok" /\ ev_ret.step.s \in {"Fork", "Attestation"}) =>
        LET t == TreeIn(ev_in.msg, ev_in.steps, 1)
        IN  /\ Consumed <= Len(t.ins)
            /\ ev_ret.msg = t.ins[Consumed]
            /\ ev_ret.step = ev_in.steps[Consumed]
            /\ ev_ret.step.s = "Fork" =>
                   /\ Len(ev.stack) >= 2
                   /\ ev.stack[Len(ev.stack)] = ev_ret.msg
                   /\ ev.stack[Len(ev.stack) - 1] = ev_ret.msg

C6_Witness ==
    /\ ev_on
    /\ Len(ev_in.steps) >= 4
    /\ ev_in.steps[1].s = "Fork"
    /\ ev_in.steps[2].s = "Op"
    /\ ev_in.steps[3].s = "Attestation"
    /\ Consumed = 4
    /\ ev_ret.kind = "Ok" /\ ev_ret.step.s = "Attestation"
    /\ ev_ret.msg = ev_in.msg

\* C7: a call of try_next_step that returns an error leaves the stack and
\* the remaining steps as they were, and a call that follows an error
\* returns that error again.
C7_ErrorsNonDestructive ==
    [][ev_ret'.kind = "Err" =>
          /\ ev' = ev
          /\ ev_ret.kind = "Err" => ev_ret' = ev_ret]_vars

C7_Witness ==
    /\ ev_on
    /\ ev_ret.kind = "Err" /\ ev_ret.err = "Op"
    /\ ev_prev = ev_ret
    /\ Consumed >= 1

\* C8 (as claimed): called with steps remaining after every branch has been
\* closed, try_next_step returns a TrailingSteps error.
C8_TrailingSteps ==
    (ev_on /\ ev.stack = <<>> /\ ev.next_steps # <<>> /\ ev_ret.kind # "Ok") =>
        ev_ret = RetErr("TrailingSteps")

\* ------------------------------------------------------------------------
\* Properties of SpecTree
\* ------------------------------------------------------------------------

\* C9 (as claimed): for N >= 1 builders MerkleTreeBuilder::new does not
\* panic, and afterwards all N builders have the same 32-byte result, the tip.
C9_MerkleConsistency ==
    Len(t_in) >= 1 =>
        /\ t_pc # "new_panicked"
        /\ t_pc \in {"built", "finish"} =>
               /\ Len(t_items) = Len(t_in)
               /\ BLen(t_tip) = 32
               /\ \A i \in 1..Len(t_items) : TimestampBuilder_result(t_items[i]) = t_tip

\* C10 (as claimed): finish, given a Timestamp on the tip, returns one
\* Timestamp per input builder, in input order: that builder's steps followed
\* by the steps of the tip timestamp.
C10_Finish ==
    (t_pc = "finish" /\ t_arg[1].msg = t_tip) =>
        /\ panic = ""
        /\ t_out = <<[i \in 1..Len(t_items) |->
                        Timestamp(t_items[i].msg, t_items[i].steps \o t_arg[1].steps)]>>

\* The tip the claim describes: for one builder its result, hashed first
\* when its msg is not 32 bytes long; for more, SHA256(tipL || tipR) with the
\* first floor(N/2) builders on the left.
RECURSIVE ClaimTip(_)
ClaimTip(items) ==
    IF Len(items) = 1
    THEN IF BLen(items[1].msg) # 32
         THEN <<Digest(8, TimestampBuilder_result(items[1]))>>
         ELSE TimestampBuilder_result(items[1])
    ELSE <<Digest(8, ClaimTip(SubSeq(items, 1, Len(items) \div 2))
                        \o ClaimTip(SubSeq(items, (Len(items) \div 2) + 1, Len(items))))>>

\* The steps the claim describes for the i-th of the builders.
RECURSIVE ClaimSteps(_, _)
ClaimSteps(items, i) ==
    IF Len(items) = 1
    THEN IF BLen(items[1].msg) # 32
         THEN Append(items[1].steps, StepOp(OpHash("Sha256")))
         ELSE items[1].steps
    ELSE IF i <= Len(items) \div 2
    THEN ClaimSteps(SubSeq(items, 1, Len(items) \div 2), i)
             \o <<StepOp(OpAppend(ClaimTip(SubSeq(items, (Len(items) \div 2) + 1, Len(items))))),
                  StepOp(OpHash("Sha256"))>>
    ELSE ClaimSteps(SubSeq(items, (Len(items) \div 2) + 1, Len(items)), i - (Len(items) \div 2))
             \o <<StepOp(OpPrepend(ClaimTip(SubSeq(items, 1, Len(items) \div 2)))),
                  StepOp(OpHash("Sha256"))>>

\* C25: when MerkleTreeBuilder::new returns for N > 1 builders, the tip is
\* SHA256(tipL || tipR) for the split at floor(N/2); every left builder has
\* gained exactly [Append(tipR), Sha256] after the steps of its own subtree
\* and every right builder [Prepend(tipL), Sha256]; msg, the earlier steps
\* and the order of the builders are unchanged.
C25_MerkleSplit ==
    (t_pc \in {"built", "finish"} /\ Len(t_in) > 1) =>
        /\ Len(t_items) = Len(t_in)
        /\ t_tip = ClaimTip(t_in)
        /\ \A i \in 1..Len(t_in) :
              /\ t_items[i].msg = t_in[i].msg
              /\ t_items[i].steps = ClaimSteps(t_in, i)
              /\ SubSeq(t_items[i].steps, 1, Len(t_in[i].steps)) = t_in[i].steps
              /\ TimestampBuilder_result(t_items[i]) = t_tip

\* Three builders, split into one and two: the right part is itself a tree.
C25_Witness ==
    /\ t_pc = "built"
    /\ Len(t_in) = 3
    /\ t_in[2] # t_in[3]
    /\ Len(t_items[1].steps) = Len(t_in[1].steps) + 2
    /\ Len(t_items[3].steps) >= Len(t_in[3].steps) + 4

\* C27 (as claimed): every successful call of try_next_step returns the step
\* it consumed with the message that was current when the step was reached
\* (for an Op, the op's input); after the None that ends a complete
\* evaluation every later call returns None.
C27_MsgSeenByStep ==
    /\ [][(ev_on /\ ev_ret'.kind = "Ok" /\ ev.stack # <<>> /\ ev.next_steps # <<>>) =>
             /\ ev_ret'.step = ev.next_steps[1]
             /\ ev_ret'.msg = Last(ev.stack)]_vars
    /\ [][(ev_on /\ ev_ret.kind = "None") => ev_ret'.kind = "None"]_vars

\* Steps::deserialize returns these steps: it does on their serialization.
DeserializeReturns(steps) ==
    Steps_deserialize(Steps_serialize(steps), <<>>, 1) = ROk(steps, <<>>)

\* C28: the depth of the evaluator's stack is 1 + Forks - Attestations over
\* the steps consumed so far; on steps that Steps::deserialize returns the
\* evaluator never returns InsufficientSteps and never reaches the case of
\* steps remaining with no branch open: every call before the end returns Ok
\* with the next step or the error of an Op, and None comes only when every
\* step has been consumed.
C28_StackDepth ==
    ev_on =>
        /\ Len(ev.stack) = TipsAfter(ev_in.steps, Consumed)
        /\ DeserializeReturns(ev_in.steps) =>
              /\ ev_ret.kind # "Panic"
              /\ ev_ret.kind = "Err" => ev_ret.err # "InsufficientSteps"
              /\ ev_ret.kind = "Ok" => ev_ret.step = ev_in.steps[Consumed]
              /\ ev_ret.kind = "None" => (Consumed = Len(ev_in.steps) /\ ev.stack = <<>>)
              /\ ev.next_steps # <<>> => ev.stack # <<>>

\* A proof with a Fork, read back by Steps::deserialize, evaluated to its end.
C28_Witness ==
    /\ ev_on
    /\ DeserializeReturns(ev_in.steps)
    /\ CountKind(ev_in.steps, "Fork") >= 1
    /\ CountKind(ev_in.steps, "Op") >= 1
    /\ ev_ret.kind = "None"
    /\ ev_prev.kind = "Ok"

\* ------------------------------------------------------------------------
\* Properties of SpecCodec
\* ------------------------------------------------------------------------

\* C15: for every n below 2^64, serialize_u64 writes the shortest base-128
\* little-endian encoding of n (one byte per 7-bit group of n, every byte but
\* the last with the high bit set, the last byte zero only for n = 0), and
\* deserialize_u64 on these bytes returns n and leaves unread exactly what
\* followed them.
C15_VarintRoundTrip ==
    (c_in.fn = "u64" /\ ~c_in.raw /\ c_pc \in {"bytes", "done"}) =>
        /\ Len(c_wire) = (IF c_in.n = <<>> THEN 1 ELSE Len(c_in.n))
        /\ \A i \in 1..Len(c_wire) :
              /\ c_wire[i].k = "b"
              /\ c_wire[i].v % 128 = (IF c_in.n = <<>> THEN 0 ELSE c_in.n[i])
              /\ (c_wire[i].v >= 128) <=> (i < Len(c_wire))
        /\ (c_wire[Len(c_wire)].v = 0) => (c_in.n = <<>>)
        /\ (c_pc = "done") => (c_out[1] = ROk(c_in.n, c_in.tail))

\* The value 2^64 - 1 was written on ten bytes and read back in front of
\* another byte.
C15_Witness ==
    /\ c_pc = "done" /\ c_in.fn = "u64" /\ ~c_in.raw
    /\ c_in.n = <<127, 127, 127, 127, 127, 127, 127, 127, 127, 1>>
    /\ c_in.tail # <<>>
    /\ Len(c_wire) = 10
    /\ c_out[1].ok

\* Index of the terminating byte (the first byte without the high bit) of the
\* varint at the head of w, 0 when there is none.
TermIndex(w) ==
    IF \E i \in 1..Len(w) : w[i].v < 128
    THEN CHOOSE i \in 1..Len(w) : w[i].v < 128 /\ \A j \in 1..(i - 1) : w[j].v >= 128
    ELSE 0

\* The number the varint at the head of w encodes, whatever its size.
EncodedValue(w) == Norm([i \in 1..TermIndex(w) |-> w[i].v % 128])

\* Bytes the reader of the called function takes at most, and whether a value
\* fits its type.
MaxBytesOf(fn) == IF fn = "u64" THEN 10 ELSE 5

Fits(fn, d) == IF fn = "u64" THEN IsU64(d) ELSE IsU32(d)

RawVarint == c_pc = "done" /\ c_in.raw /\ c_in.fn \in {"u64", "u32"}

\* C16 (as claimed): an encoding whose terminating byte is zero after at least
\* one continuation byte is rejected, so no accepted encoding is longer than
\* the one serialize_u64 writes for the value returned.
C16_AsClaimed ==
    RawVarint =>
        /\ (TermIndex(c_wire) \in 2..MaxBytesOf(c_in.fn) /\ c_wire[TermIndex(c_wire)].v = 0)
               => ~c_out[1].ok
        /\ c_out[1].ok
               => Len(c_wire) - Len(c_out[1].rest) = Len(serialize_u64(c_out[1].val))

\* C16 (amended): an encoding whose value fits the type is rejected as
\* non-canonical exactly when its value is zero and it is longer than one byte;
\* every other one is accepted with its value, however long, leaving the bytes
\* after the terminating byte unread.
C16_ZeroOverlongRejected ==
    (RawVarint /\ TermIndex(c_wire) \in 1..MaxBytesOf(c_in.fn)
               /\ Fits(c_in.fn, EncodedValue(c_wire))) =>
        IF TermIndex(c_wire) > 1 /\ EncodedValue(c_wire) = <<>>
        THEN c_out[1] = RErr("zero encoded with more than one byte")
        ELSE c_out[1] = ROk(EncodedValue(c_wire),
                            SubSeq(c_wire, TermIndex(c_wire) + 1, Len(c_wire)))

\* 0xff 0x00 was read as 127, the value serialize_u64 writes on one byte.
C16_Witness ==
    /\ RawVarint /\ c_in.fn = "u64"
    /\ c_wire = Bytes(<<255, 0>>)
    /\ c_out[1] = ROk(Num(127), <<>>)

\* C17 (as claimed): an encoding whose value does not fit the 32 (resp. 64)
\* bits of the type makes deserialize_u32 (resp. deserialize_u64) fail with
\* "varint overflow", and a value that is returned is the encoded one.
C17_OverflowRejected ==
    (RawVarint /\ TermIndex(c_wire) >= 1) =>
        /\ ~Fits(c_in.fn, EncodedValue(c_wire)) => c_out[1] = RErr("varint overflow")
        /\ c_out[1].ok => c_out[1].val = EncodedValue(c_wire)

\* Value of a lower-case hexadecimal digit, -1 for any other byte.
HexVal(c) ==
    IF c \in 48..57 THEN c - 48
    ELSE IF c \in 97..102 THEN c - 87
    ELSE -1

\* out is the lower-case hexadecimal form of m; the hexadecimal form of an
\* opaque piece is one piece of twice its length.
IsHexOf(out, m) ==
    /\ BLen(out) = 2 * BLen(m)
    /\ (\A i \in 1..Len(m) : m[i].k = "b") =>
          /\ Len(out) = 2 * Len(m)
          /\ \A i \in 1..Len(m) :
                /\ out[2 * i - 1].k = "b" /\ out[2 * i].k = "b"
                /\ HexVal(out[2 * i - 1].v) >= 0 /\ HexVal(out[2 * i].v) >= 0
                /\ 16 * HexVal(out[2 * i - 1].v) + HexVal(out[2 * i].v) = m[i].v

\* C18: Op::eval never returns more than 4096 bytes: Append(b) and Prepend(b)
\* return the concatenation when |m| + |b| <= 4096 and OverflowError
\* otherwise, Hexlify returns the 2|m| lower-case hexadecimal bytes of m when
\* |m| <= 2048 and OverflowError otherwise, and a HashOp always returns 20
\* (Sha1, Ripemd160) or 32 (Sha256) bytes.
C18_OpEvalBound ==
    (c_pc = "done" /\ c_in.fn = "op") =>
        /\ c_out[1].ok => BLen(c_out[1].val) <= 4096
        /\ c_in.op.t = "Append" =>
              IF BLen(c_in.msg) + BLen(c_in.op.arg) <= 4096
              THEN c_out[1].ok /\ c_out[1].val = c_in.msg \o c_in.op.arg
              ELSE ~c_out[1].ok
        /\ c_in.op.t = "Prepend" =>
              IF BLen(c_in.msg) + BLen(c_in.op.arg) <= 4096
              THEN c_out[1].ok /\ c_out[1].val = c_in.op.arg \o c_in.msg
              ELSE ~c_out[1].ok
        /\ c_in.op.t = "Hexlify" =>
              IF BLen(c_in.msg) <= 2048
              THEN c_out[1].ok /\ IsHexOf(c_out[1].val, c_in.msg)
              ELSE ~c_out[1].ok
        /\ c_in.op.t = "HashOp" =>
              /\ c_out[1].ok
              /\ BLen(c_out[1].val) = (IF c_in.op.h = "Sha256" THEN 32 ELSE 20)

\* Append of one byte to a message of 4095 bytes returned 4096 bytes.
C18_Witness ==
    /\ c_pc = "done" /\ c_in.fn = "op"
    /\ c_in.op = OpAppend(MsgA) /\ BLen(c_in.msg) = 4095
    /\ c_out[1].ok /\ BLen(c_out[1].val) = 4096

\* The length-prefixed payload that follows the 8-byte tag at the head of w.
PayloadOf(w) == deserialize_varbytes(MAX_PAYLOAD_SIZE, SubSeq(w, 9, Len(w)))

\* C19 (as claimed): when Attestation::deserialize returns a Bitcoin or a
\* Pending attestation, the reader of the block height (resp. of the URI) has
\* consumed the whole payload; a payload with a byte left over is an error.
C19_PayloadFullyConsumed ==
    (c_pc = "done" /\ c_in.fn = "att" /\ c_in.raw /\ c_out[1].ok) =>
        /\ c_out[1].val.a = "Bitcoin" => deserialize_u32(PayloadOf(c_wire).val).rest = <<>>
        /\ c_out[1].val.a = "Pending" => UriString_deserialize(PayloadOf(c_wire).val).rest = <<>>

SerializedAtt == c_pc = "done" /\ c_in.fn = "att" /\ ~c_in.raw

\* C20 (as claimed): every Attestation value (an Unknown one with a payload of
\* at most 8192 bytes) is returned unchanged by Attestation::deserialize from
\* the bytes of its serialization, and what follows these bytes is left unread.
C20_AsClaimed ==
    (SerializedAtt /\ (c_in.att.a = "Unknown" => BLen(c_in.att.payload) <= 8192)) =>
        c_out[1] = ROk(c_in.att, c_in.tail)

\* C20 (amended): the same, for the Unknown values whose tag is neither the
\* Bitcoin nor the Pending tag.
C20_RoundTrip ==
    (/\ SerializedAtt
     /\ c_in.att.a = "Unknown" =>
           /\ BLen(c_in.att.payload) <= 8192
           /\ c_in.att.tag \notin {BITCOIN_ATTESTATION_TAG, PENDING_ATTESTATION_TAG}) =>
        c_out[1] = ROk(c_in.att, c_in.tail)

\* An Unknown attestation with a payload of 8192 bytes was read back in front
\* of another byte.
C20_Witness ==
    /\ SerializedAtt
    /\ c_in.att = AttUnknown(UnknownTag, BigMsg \o BigMsg)
    /\ c_in.tail # <<>>
    /\ c_out[1] = ROk(c_in.att, c_in.tail)

\* ------------------------------------------------------------------------
\* Properties of SpecRpc
\* ------------------------------------------------------------------------

\* The tasks whose output is of kind k.
TasksOf(k) == {i \in 1..Len(r_tasks) : r_tasks[i].out.k = k}

\* The attestations of a step sequence.
AttsOf(steps) == {steps[i].att : i \in {j \in 1..Len(steps) : steps[j].s = "Attestation"}}

\* C11: when stamp_with_options returns with s tasks having produced a
\* Timestamp and f an error, s + f is the number of aggregators; the result is
\* Ok, with the Timestamp on the digest joined from the s successes, exactly
\* when s >= min_attestations; otherwise it is InsufficientResponses with
\* exactly f failures.
C11_Quorum ==
    r_pc = "returned" =>
        /\ Cardinality(TasksOf("Ok")) + Cardinality(TasksOf("Err")) = r_opts.aggregators
        /\ r_ret[1].ok <=> Cardinality(TasksOf("Ok")) >= r_opts.min_attestations
        /\ r_ret[1].ok =>
              /\ Len(successes) = Cardinality(TasksOf("Ok"))
              /\ r_ret[1].ts.msg = StampDigest
              /\ r_ret[1].ts = finish_with_timestamps(TimestampBuilder_new(StampDigest), successes).ts
        /\ ~r_ret[1].ok => Len(r_ret[1].failures) = Cardinality(TasksOf("Err"))

C11_Witness ==
    /\ r_pc = "returned"
    /\ r_ret[1].ok
    /\ r_opts.min_attestations = 1
    /\ Cardinality(TasksOf("Ok")) = 1
    /\ Cardinality(TasksOf("Err")) = 1

\* C12: a task that exceeds the timeout is recorded as a Timeout failure and
\* never aborts the call: once it is joined there is no panic, no task is
\* aborted, and the failures list holds a Timeout entry.
C12_TimeoutRecorded ==
    \A i \in 1..Len(r_tasks) :
        (r_tasks[i].out.k = "Elapsed" /\ r_tasks[i].st = "joined") =>
            /\ panic = ""
            /\ r_pc # "panicked"
            /\ \A j \in 1..Len(r_tasks) : r_tasks[j].st # "aborted"
            /\ \E j \in 1..Len(failures) : failures[j] = "Timeout"

\* C13: every 200 response whose body is longer than MAX_STAMP_LENGTH makes
\* post_digest return LengthLimitExceeded, with or without a Content-Length.
C13_LengthCapped ==
    \A i \in 1..Len(r_tasks) :
        ( /\ r_tasks[i].out.k \in {"Ok", "Err"}
          /\ r_tasks[i].resp.error = ""
          /\ r_tasks[i].resp.status = 200
          /\ BLen(r_tasks[i].resp.body) > MAX_STAMP_LENGTH ) =>
            r_tasks[i].out = TaskOut("Err", Timestamp(<<>>, <<>>), "LengthLimitExceeded")

\* C14: whatever the completion order, the Timestamp returned has the digest
\* as msg and its attestations are the union of the attestations of the
\* successful responses; each sub-proof is in the step sequence once.
C14_OrderIndependent ==
    (r_pc = "returned" /\ r_ret[1].ok) =>
        /\ r_ret[1].ts.msg = StampDigest
        /\ AttsOf(r_ret[1].ts.steps) =
              UNION {AttsOf(r_tasks[i].out.ts.steps) : i \in TasksOf("Ok")}
        /\ \A i \in TasksOf("Ok") :
              /\ r_tasks[i].out.ts.msg = StampDigest
              /\ \E k \in 0..Len(r_ret[1].ts.steps) :
                    SubSeq(r_ret[1].ts.steps, k + 1, k + Len(r_tasks[i].out.ts.steps))
                        = r_tasks[i].out.ts.steps
        /\ Len(r_ret[1].ts.steps) + 1 =
              Len(successes) + SumLen(successes)

\* Two successes joined in the order opposite to the order of spawning.
C14_Witness ==
    /\ r_pc = "returned"
    /\ r_ret[1].ok
    /\ Len(r_tasks) = 2
    /\ Len(successes) = 2
    /\ successes[1] = r_tasks[2].out.ts
    /\ successes[2] = r_tasks[1].out.ts
    /\ AttsOf(successes[1].steps) # AttsOf(successes[2].steps)

\* ------------------------------------------------------------------------
\* Properties of SpecFile
\* ------------------------------------------------------------------------

\* The algorithm byte DetachedTimestampFile::deserialize reads for a kind.
AlgorithmByte(kind) ==
    CASE kind = "Sha1" -> 2
      [] kind = "Ripemd160" -> 3
      [] kind = "Sha256" -> 8

\* C22 (as claimed): serialize writes the magic, the major version 1, the
\* algorithm byte that deserialize reads for the kind of digest, the digest
\* and the steps; deserialize of these bytes returns the file.
C22_FileRoundTrip ==
    (c_pc = "done" /\ ~c_in.raw) =>
        /\ c_wire = HEADER_MAGIC \o <<B(1)>> \o <<B(AlgorithmByte(c_in.file.msg.kind))>>
                        \o c_in.file.msg.digest \o Steps_serialize(c_in.file.steps)
        /\ c_out[1] = ROk(c_in.file, <<>>)

\* ------------------------------------------------------------------------
\* Properties of SpecStep
\* ------------------------------------------------------------------------

\* The step is an Append or a Prepend.
IsBinary(step) == step.s = "Op" /\ step.op.t \in {"Append", "Prepend"}

\* The length declared at the head of the wire, and the one declared after
\* the tag of an Append or Prepend.
DeclaredLenAt(w) == deserialize_u64(w)

DeclaredLen(w) == DeclaredLenAt(Tail(w))

\* C23 (as claimed): Step::deserialize rejects an Append or Prepend whose
\* declared length is above 4096, without reading the argument, and returns
\* no argument longer than 4096 bytes; Step::serialize emits no Append or
\* Prepend whose argument is longer than 4096 bytes.
C23_ArgLimitBothPaths ==
    c_in.fn = "Step" =>
        /\ (c_pc = "done" /\ c_out[1].ok /\ IsBinary(c_out[1].val)) =>
                BLen(c_out[1].val.op.arg) <= 4096
        /\ ( /\ c_pc = "done" /\ c_in.raw
              /\ Len(c_wire) >= 1 /\ c_wire[1] \in {B(240), B(241)}
              /\ DeclaredLen(c_wire).ok /\ NumGT(DeclaredLen(c_wire).val, 4096) ) =>
                c_out[1] = RErr("max length exceeded")
        /\ ( /\ c_pc \in {"bytes", "done"} /\ ~c_in.raw
              /\ IsBinary(c_in.step) /\ BLen(c_in.step.op.arg) > 4096 ) =>
                c_wire = <<>>

\* The bytes of ALLOWED_CHARS: A-Z a-z 0-9 - . _ / :
AllowedSet ==
    {65, 66, 67, 68, 69, 70, 71, 72, 73, 74, 75, 76, 77, 78, 79, 80, 81, 82, 83, 84, 85, 86, 87,
     88, 89, 90, 97, 98, 99, 100, 101, 102, 103, 104, 105, 106, 107, 108, 109, 110, 111, 112,
     113, 114, 115, 116, 117, 118, 119, 120, 121, 122, 48, 49, 50, 51, 52, 53, 54, 55, 56, 57,
     45, 46, 95, 47, 58}

\* Positions of the bytes of s outside the allowed set.
Offending(s) == {i \in 1..Len(s) : s[i].k = "b" /\ s[i].v \notin AllowedSet}

\* What the claim says of a string: "" for accepted, else the error.
UriVerdict(s) ==
    IF BLen(s) > 1000 THEN "TooLong"
    ELSE IF Offending(s) = {} THEN ""
    ELSE InvalidChar(s[CHOOSE i \in Offending(s) : \A j \in Offending(s) : i <= j].v)

\* The string delimited by the length prefix of the wire, when it is there.
UriBody(w) ==
    IF ~DeclaredLenAt(w).ok \/ NumGT(DeclaredLenAt(w).val, 1000) THEN <<>>
    ELSE read_exact(DeclaredLenAt(w).rest, NumToInt(DeclaredLenAt(w).val))

\* C24: TryFrom and UriString::deserialize accept exactly the strings of at
\* most 1000 bytes that are all in A-Z a-z 0-9 - . _ / : ; a longer string
\* (for deserialize, a declared length above 1000) is rejected with TooLong,
\* and a string with another byte with InvalidChar of the first such byte.
C24_UriAcceptedSet ==
    (c_in.fn = "UriString" /\ c_pc = "done") =>
        /\ ~c_in.raw =>
              c_out[1] = IF UriVerdict(c_in.str) = "" THEN ROk(c_in.str, <<>>)
                         ELSE RErr(UriVerdict(c_in.str))
        /\ (c_in.raw /\ DeclaredLenAt(c_wire).ok /\ NumGT(DeclaredLenAt(c_wire).val, 1000)) =>
              c_out[1] = RErr("TooLong")
        /\ (c_in.raw /\ DeclaredLenAt(c_wire).ok /\ ~NumGT(DeclaredLenAt(c_wire).val, 1000)
                     /\ UriBody(c_wire).ok) =>
              c_out[1] = IF UriVerdict(UriBody(c_wire).val) = ""
                         THEN ROk(UriBody(c_wire).val, UriBody(c_wire).rest)
                         ELSE RErr(UriVerdict(UriBody(c_wire).val))
        /\ c_out[1].ok => (BLen(c_out[1].val) <= 1000 /\ Offending(c_out[1].val) = {})

\* A string of exactly 1000 bytes has been accepted.
C24_Witness ==
    /\ c_in.fn = "UriString" /\ c_pc = "done"
    /\ c_out[1].ok
    /\ BLen(c_out[1].val) = 1000

\* ------------------------------------------------------------------------
\* Properties of SpecRpc: the join
\* ------------------------------------------------------------------------

\* C26: stamp_with_options returns only when every spawned task has finished
\* and has been joined, also when min_attestations successes arrived before;
\* at the return every task has contributed one entry, to successes or to
\* failures.
C26_WaitsForAll ==
    /\ [][(r_pc # "returned" /\ r_pc' = "returned") =>
             /\ r_ready = <<>>
             /\ \A i \in 1..Len(r_tasks) : r_tasks[i].st = "joined"]_vars
    /\ [](r_pc = "returned" =>
             /\ \A i \in 1..Len(r_tasks) :
                   /\ r_tasks[i].st = "joined"
                   /\ r_tasks[i].out.k = "Ok" => \E j \in 1..Len(successes) : successes[j] = r_tasks[i].out.ts
                   /\ r_tasks[i].out.k = "Err" => \E j \in 1..Len(failures) : failures[j] = r_tasks[i].out.err
             /\ Len(successes) = Cardinality(TasksOf("Ok"))
             /\ Len(failures) = Cardinality(TasksOf("Err"))
             /\ Len(successes) + Len(failures) = r_opts.aggregators)

\* The call has returned Ok with more successes than min_attestations: the
\* quorum was reached while a task was still pending.
C26_Witness ==
    /\ r_pc = "returned"
    /\ r_ret[1].ok
    /\ r_opts.min_attestations = 1
    /\ Len(successes) = 2

====
